---- MODULE Spec2Model ----
(***************************************************************************)
(* Fund Registry of pension-fund-tracker: FundRegistry.resolve and the     *)
(* fund / alias tables of Database it writes to.                           *)
(*                                                                         *)
(* A Python str is a sequence of one-character strings, so that the        *)
(* regular expressions of normalization.py and the similarity ratios of    *)
(* rapidfuzz are computed character by character.                          *)
(***************************************************************************)
EXTENDS Integers, Sequences, FiniteSets, TLC

\* Python None where a str is expected (Optional[str])
None == <<"<None>">>

\* Python None where an int is expected (Optional[int])
NoYear == -1

(***************************************************************************)
(* str primitives                                                          *)
(***************************************************************************)

\* the characters of the model, in code-point order
Alphabet ==
    <<" ","\"","&","'","(",")",",","-",".","0","1","2","3","4","5","6","7","8","9","A","B","C","D","E","F","G","H","I","J","K","L","M","N","O","P","Q","R","S","T","U","V","W","X","Y","Z","a","b","c","d","e","f","g","h","i","j","k","l","m","n","o","p","q","r","s","t","u","v","w","x","y","z">>

CharCode(c) == CHOOSE i \in 1..Len(Alphabet) : Alphabet[i] = c

IsUpperChar(c) == CharCode(c) \in 20..45

IsLowerChar(c) == CharCode(c) \in 46..71

\* regex \s
IsSpace(c) == c = " "

\* regex \d
IsDigit(c) == CharCode(c) \in 10..19

\* regex \w
IsWordChar(c) == CharCode(c) >= 10

LowerChar(c) == IF IsUpperChar(c) THEN Alphabet[CharCode(c) + 26] ELSE c

UpperChar(c) == IF IsLowerChar(c) THEN Alphabet[CharCode(c) - 26] ELSE c

\* str.lower()
Lower(s) == [i \in 1..Len(s) |-> LowerChar(s[i])]

\* str.upper()
Upper(s) == [i \in 1..Len(s) |-> UpperChar(s[i])]

RECURSIVE LStripChars(_, _)
\* str.lstrip(chars)
LStripChars(s, cs) ==
    IF s # <<>> /\ Head(s) \in cs THEN LStripChars(Tail(s), cs) ELSE s

RECURSIVE RStripChars(_, _)
\* str.rstrip(chars)
RStripChars(s, cs) ==
    IF s # <<>> /\ s[Len(s)] \in cs
    THEN RStripChars(SubSeq(s, 1, Len(s) - 1), cs)
    ELSE s

\* str.strip()
Strip(s) == LStripChars(RStripChars(s, {" "}), {" "})

\* str.endswith(t)
EndsWith(s, t) ==
    Len(s) >= Len(t) /\ SubSeq(s, Len(s) - Len(t) + 1, Len(s)) = t

RECURSIVE ReSplit(_, _, _)
\* re.split('[seps]+', s): the tokens between runs of separators, the empty
\* token before a leading run and after a trailing run included
ReSplit(s, seps, cur) ==
    IF s = <<>> THEN <<cur>>
    ELSE IF Head(s) \in seps
         THEN <<cur>> \o ReSplit(LStripChars(s, seps), seps, <<>>)
         ELSE ReSplit(Tail(s), seps, Append(cur, Head(s)))

\* str.split(): the whitespace-separated tokens, none of them empty
Words(s) == SelectSeq(ReSplit(s, {" "}, <<>>), LAMBDA t : t # <<>>)

\* t in s, for two str
Contains(s, t) ==
    \E i \in 1..(Len(s) - Len(t) + 1) : SubSeq(s, i, i + Len(t) - 1) = t

\* set(seq)
ToSet(seq) == {seq[i] : i \in 1..Len(seq)}

\* s < t in Python's str ordering (lexicographic by code point)
RECURSIVE StrLess(_, _)
StrLess(s, t) ==
    IF t = <<>> THEN FALSE
    ELSE IF s = <<>> THEN TRUE
    ELSE IF Head(s) = Head(t) THEN StrLess(Tail(s), Tail(t))
    ELSE CharCode(Head(s)) < CharCode(Head(t))

RECURSIVE Insert(_, _)
Insert(sorted, t) ==
    IF sorted = <<>> THEN <<t>>
    ELSE IF StrLess(t, Head(sorted)) THEN <<t>> \o sorted
    ELSE <<Head(sorted)>> \o Insert(Tail(sorted), t)

RECURSIVE Sorted(_)
\* sorted(list of str)
Sorted(toks) ==
    IF toks = <<>> THEN <<>>
    ELSE Insert(Sorted(SubSeq(toks, 1, Len(toks) - 1)), toks[Len(toks)])

RECURSIVE Join(_)
\* " ".join(list of str)
Join(toks) ==
    IF toks = <<>> THEN <<>>
    ELSE IF Len(toks) = 1 THEN toks[1]
    ELSE toks[1] \o <<" ">> \o Join(Tail(toks))

(***************************************************************************)
(* utils/normalization.py: normalize_fund_name                             *)
(***************************************************************************)

SuffixLP ==
    {<<"l","p">>, <<"l",".","p">>, <<"l","p",".">>, <<"l",".","p",".">>}

SuffixLLC ==
    {<<"l","l","c">>}

SuffixLtd ==
    {<<"l","t","d">>, <<"l","t","d",".">>}

SuffixInc ==
    {<<"i","n","c">>, <<"i","n","c",".">>}

SuffixCo ==
    {<<"c","o">>, <<"c","o",".">>}

\* re.sub(r',?\s*CORE$', '', s, flags=re.IGNORECASE), cores being the
\* lowercased strings that CORE matches: the match is the leftmost one, so
\* it takes the whole run of whitespace before the core and one comma
\* before that run
SubSuffix(s, cores) ==
    LET m == {c \in cores : EndsWith(Lower(s), c)}
    IN  IF m = {} THEN s
        ELSE LET c == CHOOSE x \in m : \A d \in m : Len(d) <= Len(x)
                 k == Len(s) - Len(c)
                 j == Len(RStripChars(SubSeq(s, 1, k), {" "}))
                 i == IF j >= 1 /\ s[j] = "," THEN j - 1 ELSE j
             IN  SubSeq(s, 1, i)

RECURSIVE SubWordFrom(_, _, _, _)
SubWordFrom(s, i, word, repl) ==
    IF i > Len(s) THEN <<>>
    ELSE LET e == i + Len(word) - 1
             hit == /\ e <= Len(s)
                    /\ Lower(SubSeq(s, i, e)) = word
                    /\ (i = 1 \/ ~IsWordChar(s[i - 1]))
                    /\ (e = Len(s) \/ ~IsWordChar(s[e + 1]))
         IN  IF hit THEN repl \o SubWordFrom(s, e + 1, word, repl)
             ELSE <<s[i]>> \o SubWordFrom(s, i + 1, word, repl)

\* re.sub(r'\bWORD\b', repl, s, flags=re.IGNORECASE), word in lower case
SubWord(s, word, repl) == SubWordFrom(s, 1, word, repl)

RECURSIVE CollapseWhitespace(_)
\* re.sub(r'\s+', ' ', s)
CollapseWhitespace(s) ==
    IF s = <<>> THEN <<>>
    ELSE IF IsSpace(Head(s))
         THEN <<" ">> \o CollapseWhitespace(LStripChars(s, {" "}))
         ELSE <<Head(s)>> \o CollapseWhitespace(Tail(s))

normalize_fund_name(name) ==
    IF name = <<>> THEN <<>>
    ELSE LET s0  == Strip(name)
             s1  == SubSuffix(s0, SuffixLP)
             s2  == SubSuffix(s1, SuffixLLC)
             s3  == SubSuffix(s2, SuffixLtd)
             s4  == SubSuffix(s3, SuffixInc)
             s5  == SubSuffix(s4, SuffixCo)
             s6  == SubWord(s5, <<"f","d">>, <<"F","u","n","d">>)
             s7  == SubWord(s6, <<"p","r","t","r","s">>, <<"P","a","r","t","n","e","r","s">>)
             s8  == SubWord(s7, <<"p","t","n","r","s">>, <<"P","a","r","t","n","e","r","s">>)
             s9  == SubWord(s8, <<"c","a","p">>, <<"C","a","p","i","t","a","l">>)
             s10 == SubWord(s9, <<"m","g","m","t">>, <<"M","a","n","a","g","e","m","e","n","t">>)
             s11 == SubWord(s10, <<"i","n","t","l">>,
                            <<"I","n","t","e","r","n","a","t","i","o","n","a","l">>)
             s12 == SubWord(s11, <<"i","n","v">>, <<"I","n","v","e","s","t","m","e","n","t">>)
         IN  Strip(CollapseWhitespace(s12))

normalize_gp_name(name) ==
    IF name = <<>> THEN <<>> ELSE normalize_fund_name(name)

(***************************************************************************)
(* utils/normalization.py: extract_fund_number                             *)
(***************************************************************************)

\* _ROMAN_VALUES: the numeral of value v is ROMAN_VALUES[v]
ROMAN_VALUES ==
    <<<<"I">>, <<"I","I">>, <<"I","I","I">>, <<"I","V">>, <<"V">>, <<"V","I">>, <<"V","I","I">>,
      <<"V","I","I","I">>, <<"I","X">>, <<"X">>, <<"X","I">>, <<"X","I","I">>, <<"X","I","I","I">>,
      <<"X","I","V">>, <<"X","V">>, <<"X","V","I">>, <<"X","V","I","I">>, <<"X","V","I","I","I">>,
      <<"X","I","X">>, <<"X","X">>, <<"X","X","I">>, <<"X","X","I","I">>, <<"X","X","I","I","I">>,
      <<"X","X","I","V">>, <<"X","X","V">>>>

RomanValue(upper) == CHOOSE v \in 1..Len(ROMAN_VALUES) : ROMAN_VALUES[v] = upper

fund_words ==
    {<<"f","u","n","d">>, <<"p","a","r","t","n","e","r","s">>, <<"c","a","p","i","t","a","l">>,
     <<"e","q","u","i","t","y">>, <<"v","e","n","t","u","r","e","s">>,
     <<"o","p","p","o","r","t","u","n","i","t","i","e","s">>, <<"g","r","o","w","t","h">>,
     <<"c","r","e","d","i","t">>, <<"e","u","r","o","p","e">>, <<"a","s","i","a">>,
     <<"e","v","e","r","g","r","e","e","n">>, <<"s","p","r","i","n","g","b","l","u","e">>}

\* the separators of re.split(r'[\s,\-\'\"()]+', ...)
TokenSeparators == {" ", ",", "-", "'", "\"", "(", ")"}

\* the guards without the fund-context vocabulary: an 'I' is skipped only as
\* the first token
SkipsTokenAnyContext(tokens, i, upper) ==
    \/ /\ upper = <<"I">>
       /\ i = 1
    \/ /\ upper = <<"V">>
       /\ i > 1
       /\ EndsWith(Lower(tokens[i - 1]), <<"v">>)

\* the guards of the loop body: TRUE when the numeral token i is skipped
\* (Python's index i is i - 1 here)
SkipsToken(tokens, i, upper) ==
    \/ /\ upper = <<"I">>
       /\ i > 1
       /\ RStripChars(Lower(tokens[i - 1]), {".", ","}) \notin fund_words
    \/ /\ upper = <<"I">>
       /\ i = 1
    \/ /\ upper = <<"V">>
       /\ i > 1
       /\ EndsWith(Lower(tokens[i - 1]), <<"v">>)

RECURSIVE ScanTokens(_, _, _, _)
\* the for loop over the tokens, from token i on
ScanTokens(tokens, i, best_roman, best_value) ==
    IF i > Len(tokens) THEN best_roman
    ELSE LET upper == RStripChars(Upper(tokens[i]), {"."})
         IN  IF upper \notin ToSet(ROMAN_VALUES)
             THEN ScanTokens(tokens, i + 1, best_roman, best_value)
             ELSE IF SkipsToken(tokens, i, upper)
             THEN ScanTokens(tokens, i + 1, best_roman, best_value)
             ELSE IF RomanValue(upper) > best_value
             THEN ScanTokens(tokens, i + 1, upper, RomanValue(upper))
             ELSE ScanTokens(tokens, i + 1, best_roman, best_value)

extract_fund_number(name) ==
    IF name = <<>> THEN None
    ELSE ScanTokens(ReSplit(Strip(name), TokenSeparators, <<>>), 1, None, 0)

(***************************************************************************)
(* rapidfuzz: fuzz.ratio and fuzz.token_sort_ratio.  A score is the exact  *)
(* fraction <<numerator, denominator>> of the similarity in [0, 1].        *)
(***************************************************************************)

Max(a, b) == IF a >= b THEN a ELSE b

RECURSIVE LcsRow(_, _, _, _)
\* one row of the longest-common-subsequence table: prev[j + 1] is the
\* length for the prefix before character c and the first j characters of b
LcsRow(prev, c, b, acc) ==
    LET j == Len(acc)
    IN  IF j > Len(b) THEN acc
        ELSE LcsRow(prev, c, b,
                    Append(acc, IF c = b[j] THEN prev[j] + 1
                                ELSE Max(prev[j + 1], acc[j])))

RECURSIVE LcsRows(_, _, _, _)
LcsRows(a, b, i, prev) ==
    IF i > Len(a) THEN prev[Len(b) + 1]
    ELSE LcsRows(a, b, i + 1, LcsRow(prev, a[i], b, <<0>>))

LcsLen(a, b) == LcsRows(a, b, 1, [j \in 1..(Len(b) + 1) |-> 0])

\* fuzz.ratio(a, b) / 100.0: the normalized Indel similarity
\* 1 - (len(a) + len(b) - 2 * lcs) / (len(a) + len(b)), 1 for two empty strings
ratio(a, b) ==
    IF Len(a) + Len(b) = 0 THEN <<1, 1>>
    ELSE <<2 * LcsLen(a, b), Len(a) + Len(b)>>

\* fuzz.token_sort_ratio(a, b) / 100.0
token_sort_ratio(a, b) == ratio(Join(Sorted(Words(a))), Join(Sorted(Words(b))))

\* score > pct / 100
ScoreAbove(score, pct) == score[1] * 100 > pct * score[2]

\* score < pct / 100
ScoreBelow(score, pct) == score[1] * 100 < pct * score[2]

\* s > t for two scores
ScoreGreater(s, t) == s[1] * t[2] > t[1] * s[2]

(***************************************************************************)
(* utils/normalization.py: extract_gp_from_fund_name                       *)
(***************************************************************************)

KNOWN_GPS ==
    <<<<"K","K","R">>, <<"B","l","a","c","k","s","t","o","n","e">>, <<"A","p","o","l","l","o">>,
      <<"T","P","G">>, <<"C","a","r","l","y","l","e">>,
      <<"W","a","r","b","u","r","g"," ","P","i","n","c","u","s">>,
      <<"H","e","l","l","m","a","n"," ","&"," ","F","r","i","e","d","m","a","n">>,
      <<"A","d","v","e","n","t"," ","I","n","t","e","r","n","a","t","i","o","n","a","l">>,
      <<"F","r","a","n","c","i","s","c","o"," ","P","a","r","t","n","e","r","s">>,
      <<"B","a","i","n"," ","C","a","p","i","t","a","l">>,
      <<"S","i","l","v","e","r"," ","L","a","k","e">>,
      <<"V","i","s","t","a"," ","E","q","u","i","t","y">>,
      <<"T","h","o","m","a"," ","B","r","a","v","o">>, <<"A","r","e","s">>,
      <<"B","r","o","o","k","f","i","e","l","d">>, <<"E","Q","T">>,
      <<"C","V","C"," ","C","a","p","i","t","a","l"," ","P","a","r","t","n","e","r","s">>,
      <<"P","e","r","m","i","r","a">>, <<"C","i","n","v","e","n">>, <<"A","p","a","x">>,
      <<"B","r","i","d","g","e","p","o","i","n","t">>, <<"H","g">>,
      <<"G","e","n","e","r","a","l"," ","A","t","l","a","n","t","i","c">>,
      <<"I","n","s","i","g","h","t"," ","P","a","r","t","n","e","r","s">>,
      <<"S","e","q","u","o","i","a">>,
      <<"A","n","d","r","e","e","s","s","e","n"," ","H","o","r","o","w","i","t","z">>,
      <<"A","c","c","e","l">>,
      <<"B","e","s","s","e","m","e","r"," ","V","e","n","t","u","r","e"," ","P","a","r","t","n","e","r","s">>,
      <<"G","r","e","y","l","o","c","k">>, <<"L","i","g","h","t","s","p","e","e","d">>,
      <<"N","E","A">>, <<"C","l","e","a","r","l","a","k","e">>, <<"G","e","n","s","t","a","r">>,
      <<"G","T","C","R">>, <<"L","e","o","n","a","r","d"," ","G","r","e","e","n">>,
      <<"M","a","d","i","s","o","n"," ","D","e","a","r","b","o","r","n">>,
      <<"P","r","o","v","i","d","e","n","c","e"," ","E","q","u","i","t","y">>,
      <<"W","e","l","s","h"," ","C","a","r","s","o","n">>,
      <<"C","e","n","t","e","r","b","r","i","d","g","e">>, <<"C","e","r","b","e","r","u","s">>,
      <<"O","a","k","t","r","e","e">>, <<"A","n","g","e","l","o"," ","G","o","r","d","o","n">>,
      <<"A","l","c","h","e","m","y">>, <<"B","e","r","k","s","h","i","r","e">>,
      <<"K","o","h","l","b","e","r","g">>,
      <<"S","u","m","m","i","t"," ","P","a","r","t","n","e","r","s">>,
      <<"T","A"," ","A","s","s","o","c","i","a","t","e","s">>,
      <<"V","e","r","i","t","a","s"," ","C","a","p","i","t","a","l">>,
      <<"P","l","a","t","i","n","u","m"," ","E","q","u","i","t","y">>,
      <<"R","o","a","r","k"," ","C","a","p","i","t","a","l">>, <<"A","u","d","a","x">>,
      <<"A","m","e","r","i","c","a","n"," ","S","e","c","u","r","i","t","i","e","s">>,
      <<"C","l","a","y","t","o","n"," ","D","u","b","i","l","i","e","r"," ","&"," ","R","i","c","e">>,
      <<"K","e","l","s","o">>, <<"N","e","w"," ","M","o","u","n","t","a","i","n">>,
      <<"R","i","v","e","r","s","i","d","e">>, <<"C","h","a","r","l","e","s","b","a","n","k">>,
      <<"S","u","n"," ","C","a","p","i","t","a","l">>,
      <<"S","y","c","a","m","o","r","e"," ","P","a","r","t","n","e","r","s">>,
      <<"T","r","i","l","a","n","t","i","c">>,
      <<"H","a","r","v","e","s","t"," ","P","a","r","t","n","e","r","s">>, <<"I","C","G">>,
      <<"P","A","I"," ","P","a","r","t","n","e","r","s">>,
      <<"B","C"," ","P","a","r","t","n","e","r","s">>,
      <<"I","n","v","e","s","t","i","n","d","u","s","t","r","i","a","l">>,
      <<"N","o","r","d","i","c"," ","C","a","p","i","t","a","l">>, <<"T","r","i","t","o","n">>,
      <<"A","s","t","o","r","g">>, <<"I","K">>, <<"M","o","n","t","a","g","u">>,
      <<"W","e","n","d","e","l">>, <<"A","r","d","i","a","n">>,
      <<"C","o","l","l","e","r"," ","C","a","p","i","t","a","l">>,
      <<"H","a","r","b","o","u","r","V","e","s","t">>,
      <<"L","e","x","i","n","g","t","o","n"," ","P","a","r","t","n","e","r","s">>,
      <<"A","d","a","m","s"," ","S","t","r","e","e","t">>,
      <<"H","a","m","i","l","t","o","n"," ","L","a","n","e">>, <<"P","a","n","t","h","e","o","n">>,
      <<"S","t","e","p","S","t","o","n","e">>, <<"G","I"," ","P","a","r","t","n","e","r","s">>,
      <<"M","e","n","l","o"," ","V","e","n","t","u","r","e","s">>,
      <<"B","a","t","t","e","r","y"," ","V","e","n","t","u","r","e","s">>,
      <<"I","n","d","e","x"," ","V","e","n","t","u","r","e","s">>,
      <<"B","e","n","c","h","m","a","r","k">>,
      <<"F","o","u","n","d","e","r","s"," ","F","u","n","d">>,
      <<"K","l","e","i","n","e","r"," ","P","e","r","k","i","n","s">>,
      <<"G","G","V"," ","C","a","p","i","t","a","l">>,
      <<"T","i","g","e","r"," ","G","l","o","b","a","l">>, <<"C","o","a","t","u","e">>,
      <<"D","1"," ","C","a","p","i","t","a","l">>, <<"L","o","n","e"," ","P","i","n","e">>,
      <<"V","i","k","i","n","g"," ","G","l","o","b","a","l">>, <<"B","a","u","p","o","s","t">>,
      <<"E","l","l","i","o","t","t">>, <<"S","t","a","r","w","o","o","d">>,
      <<"L","o","n","e"," ","S","t","a","r">>,
      <<"C","o","l","o","n","y"," ","C","a","p","i","t","a","l">>, <<"H","e","i","t","m","a","n">>,
      <<"C","B","R","E">>, <<"B","l","a","c","k","r","o","c","k">>,
      <<"B","l","a","c","k","R","o","c","k">>, <<"I","n","v","e","s","c","o">>,
      <<"M","o","r","g","a","n"," ","S","t","a","n","l","e","y">>,
      <<"G","o","l","d","m","a","n"," ","S","a","c","h","s">>,
      <<"J","P"," ","M","o","r","g","a","n">>, <<"J","P","M","o","r","g","a","n">>,
      <<"D","e","u","t","s","c","h","e"," ","B","a","n","k">>,
      <<"C","r","e","d","i","t"," ","S","u","i","s","s","e">>, <<"U","B","S">>,
      <<"B","a","r","c","l","a","y","s">>, <<"M","a","c","q","u","a","r","i","e">>, <<"A","E","W">>,
      <<"P","r","o","l","o","g","i","s">>, <<"H","i","n","e","s">>,
      <<"T","i","s","h","m","a","n"," ","S","p","e","y","e","r">>, <<"R","e","l","a","t","e","d">>,
      <<"R","o","c","k","w","o","o","d">>, <<"D","e","n","h","a","m">>, <<"E","n","C","a","p">>,
      <<"K","a","y","n","e"," ","A","n","d","e","r","s","o","n">>,
      <<"A","r","c","L","i","g","h","t">>, <<"S","t","o","n","e","p","e","a","k">>, <<"E","I","G">>,
      <<"G","l","o","b","a","l"," ","I","n","f","r","a","s","t","r","u","c","t","u","r","e"," ","P","a","r","t","n","e","r","s">>,
      <<"A","n","t","i","n"," ","I","n","f","r","a","s","t","r","u","c","t","u","r","e">>,
      <<"I"," ","S","q","u","a","r","e","d"," ","C","a","p","i","t","a","l">>,
      <<"P","a","r","t","n","e","r","s"," ","G","r","o","u","p">>,
      <<"A","l","p","I","n","v","e","s","t">>,
      <<"N","e","u","b","e","r","g","e","r"," ","B","e","r","m","a","n">>, <<"A","C","O","N">>,
      <<"A","c","c","e","l","-","K","K","R">>,
      <<"A","d","v","e","n","t"," ","G","l","o","b","a","l"," ","T","e","c","h","n","o","l","o","g","y">>,
      <<"A","&","M"," ","C","a","p","i","t","a","l"," ","P","a","r","t","n","e","r","s">>,
      <<"B","i","r","c","h"," ","H","i","l","l"," ","E","q","u","i","t","y"," ","P","a","r","t","n","e","r","s">>,
      <<"B","o","s","t","o","n"," ","V","e","n","t","u","r","e","s">>,
      <<"B","r","a","z","o","s"," ","E","q","u","i","t","y">>,
      <<"B","r","e","n","t","w","o","o","d"," ","A","s","s","o","c","i","a","t","e","s">>,
      <<"C","C","M","P"," ","C","a","p","i","t","a","l">>, <<"C","D","H">>,
      <<"D","u","f","f"," ","&"," ","P","h","e","l","p","s">>,
      <<"E","n","C","a","p"," ","F","l","a","t","r","o","c","k">>,
      <<"F","i","r","s","t"," ","R","e","s","e","r","v","e">>,
      <<"G","o","l","d","e","n"," ","G","a","t","e"," ","C","a","p","i","t","a","l">>,
      <<"G","r","e","e","n"," ","E","q","u","i","t","y">>, <<"G","r","e","e","n","h","i","l","l">>,
      <<"H","&","F">>, <<"H","g"," ","C","a","p","i","t","a","l">>,
      <<"I","n","d","u","s","t","r","y"," ","V","e","n","t","u","r","e","s">>,
      <<"J","M","I"," ","E","q","u","i","t","y">>,
      <<"K","e","l","s","o"," ","&"," ","C","o","m","p","a","n","y">>,
      <<"L","i","n","d","e","n"," ","C","a","p","i","t","a","l">>,
      <<"M","B","K"," ","P","a","r","t","n","e","r","s">>, <<"M","i","d","O","c","e","a","n">>,
      <<"O","a","k"," ","H","i","l","l">>, <<"O","c","e","a","n"," ","A","v","e","n","u","e">>,
      <<"P","a","c","i","f","i","c"," ","E","q","u","i","t","y"," ","P","a","r","t","n","e","r","s">>,
      <<"P","e","a","k"," ","R","o","c","k">>,
      <<"P","e","p","p","e","r","t","r","e","e"," ","C","a","p","i","t","a","l">>,
      <<"Q","u","a","d","r","a","n","g","l","e">>,
      <<"Q","u","a","n","t","u","m"," ","E","n","e","r","g","y"," ","P","a","r","t","n","e","r","s">>,
      <<"R","h","o","n","e">>, <<"S","i","r","i","s"," ","C","a","p","i","t","a","l">>,
      <<"S","t","e","r","l","i","n","g"," ","C","a","p","i","t","a","l">>,
      <<"S","t","o","n","e"," ","P","o","i","n","t"," ","C","a","p","i","t","a","l">>,
      <<"S","y","m","p","h","o","n","y"," ","T","e","c","h","n","o","l","o","g","y">>,
      <<"T","C","V">>, <<"T","H"," ","L","e","e">>,
      <<"T","h","o","m","a","s"," ","H","."," ","L","e","e">>,
      <<"T","o","r","c","h","l","i","g","h","t">>, <<"T","o","w","e","r"," ","B","r","o","o","k">>,
      <<"T","o","w","e","r","B","r","o","o","k">>,
      <<"T","r","i","d","e","n","t"," ","C","a","p","i","t","a","l">>,
      <<"V","e","s","t","a","r"," ","C","a","p","i","t","a","l">>,
      <<"V","i","t","r","u","v","i","a","n"," ","P","a","r","t","n","e","r","s">>,
      <<"W","L"," ","R","o","s","s">>, <<"W","a","r","b","u","r","g">>,
      <<"W","a","t","e","r","t","o","n">>,
      <<"W","e","l","l","s","p","r","i","n","g"," ","C","a","p","i","t","a","l">>,
      <<"W","i","n","d"," ","P","o","i","n","t">>, <<"5","7"," ","S","t","a","r","s">>,
      <<"A","c","r","e","w"," ","C","a","p","i","t","a","l">>, <<"A","c","t","i","s">>,
      <<"B","l","u","e"," ","R","u","n"," ","V","e","n","t","u","r","e","s">>,
      <<"B","u","t","t","e","r","f","l","y">>,
      <<"E","n","d","e","a","v","o","u","r"," ","C","a","p","i","t","a","l">>,
      <<"O","V","P"," ","V","e","n","t","u","r","e"," ","P","a","r","t","n","e","r","s">>,
      <<"A","R","C","H"," ","V","e","n","t","u","r","e">>>>

\* _GP_LOOKUP[lower]: the dict keeps the last canonical form of a key
GP_LOOKUP(lower) ==
    KNOWN_GPS[CHOOSE i \in 1..Len(KNOWN_GPS) :
                /\ Lower(KNOWN_GPS[i]) = lower
                /\ \A j \in (i + 1)..Len(KNOWN_GPS) : Lower(KNOWN_GPS[j]) # lower]

\* Strategy 1: the loop over _GP_LOOKUP keeps the first entry, in the
\* order of the dict, among the longest keys that occur in name_lower
LongestKnownGP(name_lower) ==
    LET hits == {i \in 1..Len(KNOWN_GPS) : Contains(name_lower, Lower(KNOWN_GPS[i]))}
    IN  IF hits = {} THEN None
        ELSE LET best == CHOOSE i \in hits :
                            \A j \in hits :
                               \/ Len(KNOWN_GPS[j]) < Len(KNOWN_GPS[i])
                               \/ Len(KNOWN_GPS[j]) = Len(KNOWN_GPS[i]) /\ j >= i
             IN  GP_LOOKUP(Lower(KNOWN_GPS[best]))

FUND_SUFFIXES ==
    <<<<"L","i","m","i","t","e","d"," ","P","a","r","t","n","e","r","s","h","i","p">>,
      <<"C","a","p","i","t","a","l"," ","P","a","r","t","n","e","r","s">>,
      <<"P","r","i","v","a","t","e"," ","E","q","u","i","t","y">>,
      <<"I","n","v","e","s","t","m","e","n","t"," ","F","u","n","d">>,
      <<"E","q","u","i","t","y"," ","P","a","r","t","n","e","r","s">>,
      <<"V","e","n","t","u","r","e"," ","P","a","r","t","n","e","r","s">>,
      <<"G","r","o","w","t","h"," ","E","q","u","i","t","y"," ","F","u","n","d">>,
      <<"G","r","o","w","t","h"," ","E","q","u","i","t","y">>,
      <<"G","r","o","w","t","h"," ","F","u","n","d">>,
      <<"B","u","y","o","u","t"," ","F","u","n","d">>,
      <<"B","u","y","o","u","t"," ","P","a","r","t","n","e","r","s">>,
      <<"S","t","r","a","t","e","g","i","c"," ","P","a","r","t","n","e","r","s">>,
      <<"T","a","c","t","i","c","a","l"," ","O","p","p","o","r","t","u","n","i","t","i","e","s"," ","F","u","n","d">>,
      <<"T","a","c","t","i","c","a","l"," ","O","p","p","o","r","t","u","n","i","t","i","e","s">>,
      <<"S","p","e","c","i","a","l"," ","S","i","t","u","a","t","i","o","n","s">>,
      <<"R","e","a","l"," ","E","s","t","a","t","e"," ","F","u","n","d">>,
      <<"R","e","a","l"," ","E","s","t","a","t","e"," ","P","a","r","t","n","e","r","s">>,
      <<"R","e","a","l"," ","E","s","t","a","t","e">>,
      <<"I","n","f","r","a","s","t","r","u","c","t","u","r","e"," ","P","a","r","t","n","e","r","s">>,
      <<"I","n","f","r","a","s","t","r","u","c","t","u","r","e"," ","F","u","n","d">>,
      <<"I","n","f","r","a","s","t","r","u","c","t","u","r","e">>,
      <<"E","n","e","r","g","y"," ","P","a","r","t","n","e","r","s">>,
      <<"E","n","e","r","g","y"," ","F","u","n","d">>,
      <<"C","r","e","d","i","t"," ","O","p","p","o","r","t","u","n","i","t","i","e","s">>,
      <<"C","r","e","d","i","t"," ","P","a","r","t","n","e","r","s">>,
      <<"C","r","e","d","i","t"," ","F","u","n","d">>,
      <<"O","p","p","o","r","t","u","n","i","t","i","e","s"," ","F","u","n","d">>,
      <<"O","p","p","o","r","t","u","n","i","t","i","e","s">>,
      <<"C","a","p","i","t","a","l"," ","F","u","n","d">>,
      <<"C","a","p","i","t","a","l"," ","A","p","p","r","e","c","i","a","t","i","o","n"," ","F","u","n","d">>,
      <<"G","l","o","b","a","l"," ","F","u","n","d">>,
      <<"C","o","-","I","n","v","e","s","t","m","e","n","t">>,
      <<"C","o","i","n","v","e","s","t","m","e","n","t">>, <<"C","o","-","I","n","v","e","s","t">>,
      <<"C","o","m","p","o","u","n","d","i","n","g"," ","C","a","p","i","t","a","l">>,
      <<"S","t","r","a","t","e","g","i","c"," ","O","p","p","o","r","t","u","n","i","t","i","e","s">>,
      <<"S","e","c","o","n","d","a","r","y"," ","P","u","r","c","h","a","s","e">>,
      <<"P","a","r","t","n","e","r","s">>, <<"C","a","p","i","t","a","l">>, <<"F","u","n","d">>,
      <<"I","n","v","e","s","t","o","r","s">>, <<"V","e","n","t","u","r","e","s">>, <<"G","P","E">>,
      <<"S","C","S","p">>, <<"C","o","o","p","e","r","a","t","i","e","f"," ","U",".","A",".">>,
      <<"C","o","o","p","e","r","a","t","i","e","f">>, <<"L",".","P",".">>, <<"L","P">>,
      <<"L","L","C">>, <<"L","t","d">>, <<"I","n","c">>>>

\* re.sub(r',?\s*CORE\s*$', '', s, flags=re.IGNORECASE)
SubSuffixWs(s, cores) ==
    LET t == RStripChars(s, {" "})
    IN  IF SubSuffix(t, cores) # t THEN SubSuffix(t, cores) ELSE s

\* re.sub(r',?\s*Cooperatief\s*U\.?A\.?\s*$', '', s, flags=re.IGNORECASE)
SubCooperatief(s) ==
    LET t  == RStripChars(s, {" "})
        ua == {c \in {<<"u","a">>, <<"u",".","a">>, <<"u","a",".">>, <<"u",".","a",".">>} :
                 EndsWith(Lower(t), c)}
    IN  IF ua = {} THEN s
        ELSE LET c == CHOOSE x \in ua : TRUE
                 u == RStripChars(SubSeq(t, 1, Len(t) - Len(c)), {" "})
                 coop == <<"c","o","o","p","e","r","a","t","i","e","f">>
             IN  IF SubSuffix(u, {coop}) # u THEN SubSuffix(u, {coop}) ELSE s

\* the position of the first ")" at or after i, 0 when there is none
FirstClose(s, i) ==
    IF \E k \in i..Len(s) : s[k] = ")"
    THEN CHOOSE k \in i..Len(s) : s[k] = ")" /\ \A l \in i..(k - 1) : s[l] # ")"
    ELSE 0

RECURSIVE SubParenFrom(_, _)
SubParenFrom(s, i) ==
    IF i > Len(s) THEN <<>>
    ELSE LET ws == (Len(s) - i + 1) - Len(LStripChars(SubSeq(s, i, Len(s)), {" "}))
             open == i + ws
             close == IF open <= Len(s) /\ s[open] = "(" THEN FirstClose(s, open) ELSE 0
         IN  IF close = 0 THEN <<s[i]>> \o SubParenFrom(s, i + 1)
             ELSE LET rest == LStripChars(SubSeq(s, close + 1, Len(s)), {" "})
                  IN  <<" ">> \o SubParenFrom(rest, 1)

\* re.sub(r'\s*\([^)]*\)\s*', ' ', s)
SubParen(s) == SubParenFrom(s, 1)

LetterAE == {"A", "B", "C", "D", "E"}

\* re.sub(r"\s*[-–]\s*[A-E]\s*$", '', s); the en dash is not in Alphabet
SubDashLetter(s) ==
    LET t == RStripChars(s, {" "})
    IN  IF t # <<>> /\ t[Len(t)] \in LetterAE
        THEN LET u == RStripChars(SubSeq(t, 1, Len(t) - 1), {" "})
             IN  IF u # <<>> /\ u[Len(u)] = "-"
                 THEN RStripChars(SubSeq(u, 1, Len(u) - 1), {" "})
                 ELSE s
        ELSE s

\* re.sub(r"\s+'[A-E]'\s*$", '', s)
SubQuotedLetter(s) ==
    LET t == RStripChars(s, {" "})
        n == Len(t)
    IN  IF n >= 4 /\ t[n] = "'" /\ t[n - 1] \in LetterAE /\ t[n - 2] = "'" /\ t[n - 3] = " "
        THEN RStripChars(SubSeq(t, 1, n - 3), {" "})
        ELSE s

\* re.sub(r"\s+[A-E]\s*$", '', s)
SubLetter(s) ==
    LET t == RStripChars(s, {" "})
        n == Len(t)
    IN  IF n >= 2 /\ t[n] \in LetterAE /\ t[n - 1] = " "
        THEN RStripChars(SubSeq(t, 1, n - 1), {" "})
        ELSE s

\* the length of the run of word characters of s that starts at i
RECURSIVE WordRun(_, _)
WordRun(s, i) ==
    IF i > Len(s) \/ ~IsWordChar(s[i]) THEN 0 ELSE 1 + WordRun(s, i + 1)

RECURSIVE SubRomanFrom(_, _)
SubRomanFrom(s, i) ==
    IF i > Len(s) THEN <<>>
    ELSE IF ~IsWordChar(s[i]) THEN <<s[i]>> \o SubRomanFrom(s, i + 1)
    ELSE LET n == WordRun(s, i)
             word == SubSeq(s, i, i + n - 1)
         IN  IF Upper(word) \in ToSet(ROMAN_VALUES)
             THEN SubRomanFrom(s, i + n)
             ELSE word \o SubRomanFrom(s, i + n)

\* _ROMAN_NUMERAL_PATTERN.sub('', s): between two \b the pattern matches a
\* whole run of word characters that is a numeral I..XXV in any case
SubRoman(s) == SubRomanFrom(s, 1)

\* the length of the longest suffix of s made of digits
RECURSIVE TailDigits(_)
TailDigits(s) ==
    IF s = <<>> \/ ~IsDigit(s[Len(s)]) THEN 0
    ELSE 1 + TailDigits(SubSeq(s, 1, Len(s) - 1))

\* re.sub(r'\s+\d+\.?\d*\s*$', '', s)
SubTrailingNumber(s) ==
    LET t  == RStripChars(s, {" "})
        d2 == TailDigits(t)
        t2 == SubSeq(t, 1, Len(t) - d2)
        \* the forms \d+ , \d+\. and \d+\.\d* of the number, longest first
        dot == t2 # <<>> /\ t2[Len(t2)] = "."
        t3 == IF dot THEN SubSeq(t2, 1, Len(t2) - 1) ELSE t2
        d1 == IF dot THEN TailDigits(t3) ELSE 0
        t4 == SubSeq(t3, 1, Len(t3) - d1)
        withDot == dot /\ d1 >= 1 /\ t4 # <<>> /\ t4[Len(t4)] = " "
        noDot == d2 >= 1 /\ t2 # <<>> /\ t2[Len(t2)] = " "
    IN  IF withDot THEN RStripChars(t4, {" "})
        ELSE IF noDot THEN RStripChars(t2, {" "})
        ELSE s

\* re.sub(r'\s+' + re.escape(suffix) + r'\s*$', '', s, flags=re.IGNORECASE)
SubFundSuffix(s, suffix) ==
    LET t == RStripChars(s, {" "})
        k == Len(t) - Len(suffix)
    IN  IF k >= 1 /\ EndsWith(Lower(t), Lower(suffix)) /\ t[k] = " "
        THEN RStripChars(SubSeq(t, 1, k), {" "})
        ELSE s

RECURSIVE SubFundSuffixes(_, _)
\* the loop over _FUND_SUFFIXES, from entry i on
SubFundSuffixes(s, i) ==
    IF i > Len(FUND_SUFFIXES) THEN s
    ELSE LET t == SubFundSuffix(s, FUND_SUFFIXES[i])
         IN  IF t = s THEN SubFundSuffixes(s, i + 1) ELSE SubFundSuffixes(t, i + 1)

\* str.isdigit()
IsDigitStr(s) == s # <<>> /\ \A i \in 1..Len(s) : IsDigit(s[i])

\* the returns of extract_gp_from_fund_name: the known GP, else the cleaned
\* name s if it is long enough and not only digits
ExtractedGP(best_match, s) ==
    IF best_match # None THEN best_match
    ELSE IF s # <<>> /\ Len(s) >= 2 /\ ~IsDigitStr(SelectSeq(s, LAMBDA c : c # " "))
    THEN s
    ELSE None

\* extract_gp_from_fund_name on name = fund_name.strip(), not empty
ExtractFromStripped(name) ==
    LET a1 == SubSuffixWs(name, SuffixLP)
        a2 == SubSuffixWs(a1, SuffixLLC)
        a3 == SubSuffixWs(a2, SuffixLtd)
        a4 == SubSuffixWs(a3, SuffixInc)
        a5 == SubSuffixWs(a4, {<<"s","c","s","p">>})
        a6 == SubCooperatief(a5)
        a7 == SubParen(a6)
        a8 == SubLetter(SubQuotedLetter(SubDashLetter(a7)))
        a9 == SubRoman(a8)
        a10 == SubTrailingNumber(a9)
        a11 == SubFundSuffixes(a10, 1)
        a12 == RStripChars(a11, {" ", ",", "-"})
    IN  ExtractedGP(LongestKnownGP(Lower(name)), Strip(CollapseWhitespace(a12)))

extract_gp_from_fund_name(fund_name) ==
    IF fund_name = <<>> THEN None
    ELSE IF Strip(fund_name) = <<>> THEN None
    ELSE ExtractFromStripped(Strip(fund_name))

(***************************************************************************)
(* utils/normalization.py: classify_fund_strategy                          *)
(***************************************************************************)

NoStrategy == "None"

\* any(kw in name_lower for kw in kws)
AnyIn(name_lower, kws) == \E kw \in kws : Contains(name_lower, kw)

\* (asset_class, sub_strategy)
classify_fund_strategy(fund_name) ==
    LET name_lower == Lower(fund_name)
    IN  IF fund_name = <<>> THEN <<"Private Equity", NoStrategy>>
        ELSE IF AnyIn(name_lower, {<<"r","e","a","l"," ","e","s","t","a","t","e">>, <<"r","e","a","l","t","y">>, <<"p","r","o","p","e","r","t","y">>, <<"r","e","i","t">>})
        THEN <<"Real Assets", "Real Estate">>
        ELSE IF AnyIn(name_lower, {<<"i","n","f","r","a","s","t","r","u","c","t","u","r","e">>, <<"i","n","f","r","a"," ">>})
        THEN <<"Real Assets", "Infrastructure">>
        ELSE IF AnyIn(name_lower, {<<"n","a","t","u","r","a","l"," ","r","e","s","o","u","r","c","e">>, <<"t","i","m","b","e","r">>, <<"m","i","n","i","n","g">>, <<"o","i","l"," ">>, <<"g","a","s"," ">>})
        THEN <<"Real Assets", "Natural Resources">>
        ELSE IF AnyIn(name_lower, {<<"e","n","e","r","g","y">>})
        THEN <<"Private Equity", "Energy">>
        ELSE IF AnyIn(name_lower, {<<"f","u","n","d"," ","o","f"," ","f","u","n","d","s">>, <<"p","a","t","h","w","a","y">>})
        THEN <<"Private Equity", "Fund of Funds">>
        ELSE IF AnyIn(name_lower, {<<"s","e","c","o","n","d","a","r">>, <<"s","e","c","o","n","d","a","r","y">>})
        THEN <<"Private Equity", "Secondaries">>
        ELSE IF AnyIn(name_lower, {<<"c","o","-","i","n","v","e","s","t">>, <<"c","o","i","n","v","e","s","t">>, <<"c","o"," ","i","n","v","e","s","t">>})
        THEN <<"Private Equity", "Co-Investment">>
        ELSE IF AnyIn(name_lower, {<<"c","r","e","d","i","t">>, <<"d","e","b","t">>, <<"l","o","a","n">>, <<"l","e","n","d","i","n","g">>, <<"m","e","z","z","a","n","i","n","e">>, <<"m","e","z","z">>})
        THEN <<"Private Credit", "Credit">>
        ELSE IF AnyIn(name_lower, {<<"d","i","s","t","r","e","s","s">>, <<"s","p","e","c","i","a","l"," ","s","i","t","u","a","t","i","o","n">>, <<"t","u","r","n","a","r","o","u","n","d">>, <<"r","e","c","o","v","e","r","y">>, <<"r","e","s","c","u","e">>})
        THEN <<"Private Equity", "Distressed/Special Situations">>
        ELSE IF AnyIn(name_lower, {<<"v","e","n","t","u","r","e">>, <<"s","e","e","d">>, <<"e","a","r","l","y"," ","s","t","a","g","e">>, <<"e","a","r","l","y","-","s","t","a","g","e">>})
        THEN <<"Private Equity", "Venture Capital">>
        ELSE IF AnyIn(name_lower, {<<"g","r","o","w","t","h">>})
        THEN <<"Private Equity", "Growth Equity">>
        ELSE IF AnyIn(name_lower, {<<"b","u","y","o","u","t">>})
        THEN <<"Private Equity", "Buyout">>
        ELSE IF AnyIn(name_lower, {<<"o","p","p","o","r","t","u","n","i","t">>})
        THEN <<"Private Equity", "Opportunistic">>
        ELSE <<"Private Equity", NoStrategy>>

(***************************************************************************)
(* entity_resolution.py: FundRegistry, the computations of resolve,        *)
(* _fuzzy_match and _create_new_fund on their arguments                    *)
(***************************************************************************)

\* _GENERIC
GENERIC ==
    {<<"f","u","n","d">>, <<"c","a","p","i","t","a","l">>, <<"p","a","r","t","n","e","r","s">>,
     <<"p","a","r","t","n","e","r">>, <<"i","n","v","e","s","t","m","e","n","t">>,
     <<"i","n","v","e","s","t","m","e","n","t","s">>, <<"e","q","u","i","t","y">>,
     <<"v","e","n","t","u","r","e","s">>, <<"v","e","n","t","u","r","e">>,
     <<"c","r","e","d","i","t">>, <<"g","r","o","u","p">>,
     <<"m","a","n","a","g","e","m","e","n","t">>, <<"g","l","o","b","a","l">>,
     <<"i","n","t","e","r","n","a","t","i","o","n","a","l">>,
     <<"o","p","p","o","r","t","u","n","i","t","i","e","s">>, <<"s","p","e","c","i","a","l">>,
     <<"s","i","t","u","a","t","i","o","n","s">>, <<"g","r","o","w","t","h">>,
     <<"b","u","y","o","u","t">>, <<"r","e","a","l">>, <<"e","s","t","a","t","e">>,
     <<"i","n","f","r","a","s","t","r","u","c","t","u","r","e">>, <<"t","h","e">>, <<"o","f">>,
     <<"a","n","d">>, <<"n","e","w">>, <<"n","o","r","t","h">>, <<"s","o","u","t","h">>,
     <<"e","a","s","t">>, <<"w","e","s","t">>, <<"i">>, <<"i","i">>, <<"i","i","i">>, <<"i","v">>,
     <<"v">>, <<"v","i">>, <<"v","i","i">>, <<"v","i","i","i">>, <<"i","x">>, <<"x">>, <<"x","i">>,
     <<"x","i","i">>, <<"x","i","i","i">>, <<"x","i","v">>, <<"x","v">>, <<"x","v","i">>,
     <<"x","v","i","i">>, <<"x","v","i","i","i">>, <<"a">>, <<"b">>, <<"c">>, <<"d">>, <<"e">>,
     <<"l","p">>, <<"l","l","c">>, <<"l","t","d">>, <<"i","n","c">>, <<"c","o">>, <<"n","o">>,
     <<"n","o",".">>, <<"s","e","r","i","e","s">>,
     <<"c","o","i","n","v","e","s","t","m","e","n","t">>,
     <<"c","o","-","i","n","v","e","s","t","m","e","n","t">>, <<"s","c","s","p">>,
     <<"t","e">>, <<"u","s">>, <<"u",".","s",".">>,
     <<"e","u","r","o","p","e">>, <<"a","s","i","a">>, <<"a","m","e","r","i","c","a">>,
     <<"a","m","e","r","i","c","a","s">>, <<"l","a","t","i","n">>, <<"p","a","c","i","f","i","c">>}

STRATEGY_WORDS ==
    {<<"c","r","e","d","i","t">>, <<"a","s","i","a">>, <<"e","u","r","o","p","e">>,
     <<"l","a","t","i","n">>, <<"r","e","a","l">>,
     <<"i","n","f","r","a","s","t","r","u","c","t","u","r","e">>}

\* the thresholds of _fuzzy_match, in percent
StandardFloor == 65

OverlapFloor == 30

NameSignal == 85

GpSignal == 85

NameFloor == 75

MinSignals == 2

\* bool(x) of an Optional[str]
Truthy(x) == x # None /\ x # <<>>

\* bool(x) of an Optional[int]
TruthyYear(y) == y # NoYear /\ y # 0

distinctive_tokens(normalized_name) == ToSet(Words(Lower(normalized_name))) \ GENERIC

\* generate_id() never returns a value it returned before: ids are 1, 2, ...
\* and NoId stands for None
NoId == 0

\* resolve: normalized
NormalizedKey(fund_name_raw) == Lower(normalize_fund_name(fund_name_raw))

\* resolve: raw_lower
RawKey(fund_name_raw) == Lower(Strip(fund_name_raw))

\* set(name.split()) & _STRATEGY_WORDS
strategies(name) == ToSet(Words(name)) \cap STRATEGY_WORDS

\* the hard rejects without the one on the fund numbers
RejectsIgnoringNumber(input_fund_num, canonical_fund_num, standard_score, input_distinctive, canonical_distinctive, overlap, union, input_strategies, canon_strategies) ==
    \/ ScoreBelow(standard_score, StandardFloor)
    \/ /\ input_distinctive # {}
       /\ canonical_distinctive # {}
       /\ union # {}
       /\ ScoreBelow(<<Cardinality(overlap), Cardinality(union)>>, OverlapFloor)
    \/ input_strategies # canon_strategies

\* the hard rejects with a fund number on one side only rejecting as well
RejectsUnknownNumber(input_fund_num, canonical_fund_num, standard_score, input_distinctive, canonical_distinctive, overlap, union, input_strategies, canon_strategies) ==
    \/ /\ Truthy(input_fund_num) \/ Truthy(canonical_fund_num)
       /\ input_fund_num # canonical_fund_num
    \/ ScoreBelow(standard_score, StandardFloor)
    \/ /\ input_distinctive # {}
       /\ canonical_distinctive # {}
       /\ union # {}
       /\ ScoreBelow(<<Cardinality(overlap), Cardinality(union)>>, OverlapFloor)
    \/ input_strategies # canon_strategies

\* the hard rejects without the one on the strategy words
RejectsIgnoringStrategy(input_fund_num, canonical_fund_num, standard_score, input_distinctive, canonical_distinctive, overlap, union, input_strategies, canon_strategies) ==
    \/ /\ Truthy(input_fund_num)
       /\ Truthy(canonical_fund_num)
       /\ input_fund_num # canonical_fund_num
    \/ ScoreBelow(standard_score, StandardFloor)
    \/ /\ input_distinctive # {}
       /\ canonical_distinctive # {}
       /\ union # {}
       /\ ScoreBelow(<<Cardinality(overlap), Cardinality(union)>>, OverlapFloor)

\* the hard rejects without the one on the distinctive tokens
RejectsIgnoringOverlap(input_fund_num, canonical_fund_num, standard_score, input_distinctive, canonical_distinctive, overlap, union, input_strategies, canon_strategies) ==
    \/ /\ Truthy(input_fund_num)
       /\ Truthy(canonical_fund_num)
       /\ input_fund_num # canonical_fund_num
    \/ ScoreBelow(standard_score, StandardFloor)
    \/ input_strategies # canon_strategies

\* the four hard rejects ("continue") of the loop body of _fuzzy_match
Rejects(input_fund_num, canonical_fund_num, standard_score, input_distinctive, canonical_distinctive, overlap, union, input_strategies, canon_strategies) ==
    \/ /\ Truthy(input_fund_num)
       /\ Truthy(canonical_fund_num)
       /\ input_fund_num # canonical_fund_num
    \/ ScoreBelow(standard_score, StandardFloor)
    \/ /\ input_distinctive # {}
       /\ canonical_distinctive # {}
       /\ union # {}
       /\ ScoreBelow(<<Cardinality(overlap), Cardinality(union)>>, OverlapFloor)
    \/ input_strategies # canon_strategies

\* the hard rejects on the two distinctive token sets
RejectsTokens(input_fund_num, canonical_fund_num, standard_score, input_distinctive, canonical_distinctive, input_strategies, canon_strategies) ==
    Rejects(input_fund_num, canonical_fund_num, standard_score,
            input_distinctive, canonical_distinctive,
            input_distinctive \cap canonical_distinctive,
            input_distinctive \cup canonical_distinctive,
            input_strategies, canon_strategies)

\* the hard rejects on the input and on canonical_normalized of the fund
RejectsNormalized(fund_name, fund_name_raw, normalized, canonical_normalized) ==
    RejectsTokens(extract_fund_number(fund_name_raw), extract_fund_number(fund_name),
                  ratio(normalized, canonical_normalized),
                  distinctive_tokens(normalized),
                  distinctive_tokens(canonical_normalized),
                  strategies(normalized), strategies(canonical_normalized))

\* the fund whose fund_name is given is rejected for the input
HardReject(fund_name, fund_name_raw) ==
    RejectsNormalized(fund_name, fund_name_raw, NormalizedKey(fund_name_raw),
                      Lower(normalize_fund_name(fund_name)))

\* name_score of a fund that is not rejected: token_score
NameScore(fund_name, fund_name_raw) ==
    token_sort_ratio(NormalizedKey(fund_name_raw), Lower(normalize_fund_name(fund_name)))

\* gp_normalized of _fuzzy_match
GpNormalized(general_partner) ==
    IF Truthy(general_partner) THEN Lower(normalize_gp_name(general_partner)) ELSE None

\* Signal 2 on gp_normalized and fund["general_partner_normalized"]
GpSignalHolds(gp_normalized, fund_gp_normalized) ==
    /\ Truthy(gp_normalized)
    /\ Truthy(fund_gp_normalized)
    /\ ScoreAbove(ratio(gp_normalized, Lower(fund_gp_normalized)), GpSignal)

\* Signal 2: both sides have a GP and gp_score > 0.85
GpMatch(general_partner, fund_gp_normalized) ==
    GpSignalHolds(GpNormalized(general_partner), fund_gp_normalized)

\* fund["fund_name"] being the raw name, never the normalized one
CanonicalNameRaw(canonical_name, fund_name_raw) == fund_name_raw

\* _create_new_fund: fund["fund_name"]
CanonicalName(canonical_name, fund_name_raw) ==
    IF canonical_name # <<>> THEN canonical_name ELSE fund_name_raw

\* _create_new_fund: the general partner, given or inferred from the name
NewFundGP(canonical_name, fund_name_raw, general_partner) ==
    IF ~Truthy(general_partner)
    THEN extract_gp_from_fund_name(CanonicalName(canonical_name, fund_name_raw))
    ELSE general_partner

\* _create_new_fund: the fund dict, which is the row handed to upsert_fund
FundDict(fund_id, canonical_name, fund_name_raw, gp, vintage_year, cls) ==
    [id |-> fund_id,
     fund_name |-> CanonicalName(canonical_name, fund_name_raw),
     fund_name_raw |-> fund_name_raw,
     general_partner |-> gp,
     general_partner_normalized |-> IF Truthy(gp) THEN normalize_gp_name(gp) ELSE None,
     vintage_year |-> vintage_year,
     asset_class |-> cls[1],
     sub_strategy |-> cls[2]]

\* _create_new_fund on canonical_name = normalize_fund_name(fund_name_raw)
NewFundNamed(fund_id, canonical_name, fund_name_raw, general_partner, vintage_year) ==
    FundDict(fund_id, canonical_name, fund_name_raw,
             NewFundGP(canonical_name, fund_name_raw, general_partner),
             vintage_year, classify_fund_strategy(fund_name_raw))

NewFund(fund_id, fund_name_raw, general_partner, vintage_year) ==
    NewFundNamed(fund_id, normalize_fund_name(fund_name_raw), fund_name_raw,
                 general_partner, vintage_year)

\* _create_new_fund: the key of the fund in _name_to_id
NewFundKey(fund) == Lower(fund.fund_name)

(***************************************************************************)
(* database.py: the tables FundRegistry reads and writes.  db_funds maps   *)
(* the primary key id to the row; the alias tables are sets of rows.       *)
(***************************************************************************)

\* upsert_fund: INSERT ... ON CONFLICT(id) DO UPDATE SET every column but
\* fund_name_raw
DbUpsertFund(tbl, row) ==
    IF row.id \in DOMAIN tbl
    THEN [tbl EXCEPT ![row.id] = [row EXCEPT !.fund_name_raw = tbl[row.id].fund_name_raw]]
    ELSE (row.id :> row) @@ tbl

\* the INSERT of add_fund_alias raises sqlite3.IntegrityError: UNIQUE(alias,
\* source_pension_fund_id), where two NULL sources never conflict, and the
\* two foreign keys (PRAGMA foreign_keys=ON)
AliasIntegrityError(fund_tbl, pension_tbl, alias_tbl, fund_id, alias, source) ==
    \/ \E r \in alias_tbl : /\ r.alias = alias
                            /\ source # None
                            /\ r.source_pension_fund_id = source
    \/ fund_id \notin DOMAIN fund_tbl
    \/ source # None /\ source \notin pension_tbl

\* add_fund_alias: the table after the call
DbAddFundAlias(fund_tbl, pension_tbl, alias_tbl, id, fund_id, alias, source) ==
    IF AliasIntegrityError(fund_tbl, pension_tbl, alias_tbl, fund_id, alias, source)
    THEN alias_tbl
    ELSE alias_tbl \cup {[id |-> id, fund_id |-> fund_id, alias |-> alias,
                          source_pension_fund_id |-> source]}

\* add_fund_alias: the ids the call can return; fetchone() takes any row of
\* SELECT id ... WHERE alias = ? AND source_pension_fund_id IS ?
AddFundAliasReturns(fund_tbl, pension_tbl, alias_tbl, id, fund_id, alias, source) ==
    LET rows == {r \in alias_tbl : r.alias = alias /\ r.source_pension_fund_id = source}
    IN  IF AliasIntegrityError(fund_tbl, pension_tbl, alias_tbl, fund_id, alias, source)
           /\ rows # {}
        THEN {r.id : r \in rows}
        ELSE {id}

\* add_gp_alias: UNIQUE(alias); a duplicate insert changes nothing
DbAddGpAlias(gp_tbl, id, canonical_name, alias) ==
    IF \E r \in gp_tbl : r.alias = alias
    THEN gp_tbl
    ELSE gp_tbl \cup {[id |-> id, canonical_name |-> canonical_name, alias |-> alias]}

(***************************************************************************)
(* Inputs                                                                  *)
(***************************************************************************)

KKR == <<"K","K","R">>

KKR_Fund == <<"K","K","R"," ","F","u","n","d">>

KKR_Fund_XII == <<"K","K","R"," ","F","u","n","d"," ","X","I","I">>

KKR_Fund_XI == <<"K","K","R"," ","F","u","n","d"," ","X","I">>

KKR_XII_Fund == <<"K","K","R"," ","X","I","I"," ","F","u","n","d">>

KKR_Fund_XII_LP == <<"K","K","R"," ","F","u","n","d"," ","X","I","I",","," ","L",".","P",".">>

LP == <<"L","P">>

\* the records handed to resolve: <<fund_name_raw, general_partner, vintage_year>>
Records ==
    {<<KKR_Fund, None, 2017>>,
     <<KKR_Fund_XII, KKR, 2017>>,
     <<KKR_Fund_XII, None, NoYear>>,
     <<KKR_Fund_XI, KKR, 2017>>,
     <<KKR_Fund_XII_LP, KKR, 2017>>,
     <<KKR_XII_Fund, KKR, NoYear>>,
     <<KKR_XII_Fund, None, NoYear>>,
     <<LP, None, NoYear>>,
     <<<<>>, None, NoYear>>}

KKR_Credit_Fund_XII == <<"K","K","R"," ","C","r","e","d","i","t"," ","F","u","n","d"," ","X","I","I">>

KKS_Fund_XII == <<"K","K","S"," ","F","u","n","d"," ","X","I","I">>

Fund_XII == <<"F","u","n","d"," ","X","I","I">>

\* further records handed to _fuzzy_match called on its own
MatchRecords ==
    {<<KKR_Credit_Fund_XII, KKR, 2017>>, <<KKS_Fund_XII, KKR, 2017>>, <<Fund_XII, KKR, 2017>>}

AllRecords == Records \cup MatchRecords

RawNames == {r[1] : r \in Records}

MatchNames == RawNames \cup {r[1] : r \in MatchRecords}

GeneralPartners == {r[2] : r \in AllRecords}

calpers == <<"c","a","l","p","e","r","s">>

SourceIds == {None, calpers}

\* the alias texts of the direct calls of add_fund_alias
AliasTexts == {KKR_XII_Fund}

\* the number of ids generate_id() hands out in a run
MaxIds == 4

\* the fund_id arguments of the direct calls of add_fund_alias
FundIds == 1..MaxIds

(***************************************************************************)
(* The computations above on the inputs, each computed once                *)
(***************************************************************************)

\* normalized and raw_lower of resolve
KeyTable ==
    [n \in RawNames |-> [normalized |-> NormalizedKey(n), raw_lower |-> RawKey(n)]] @@ <<>>

\* the fund _create_new_fund makes of a record, before its id is generated
NewFundTable ==
    [r \in Records |-> NewFund(NoId, r[1], r[2], r[3])] @@ <<>>

\* fund_name of the funds
CanonicalNames == {NewFundTable[r].fund_name : r \in Records}

HardRejectTable ==
    [p \in CanonicalNames \X MatchNames |-> HardReject(p[1], p[2])] @@ <<>>

NameScoreTable ==
    [p \in CanonicalNames \X MatchNames |-> NameScore(p[1], p[2])] @@ <<>>

\* general_partner_normalized of the funds
CanonicalGPs == {NewFundTable[r].general_partner_normalized : r \in Records}

GpMatchTable ==
    [p \in GeneralPartners \X CanonicalGPs |-> GpMatch(p[1], p[2])] @@ <<>>

\* input_fund_num and canonical_fund_num of _fuzzy_match
FundNumberTable ==
    [n \in RawNames \cup CanonicalNames |-> extract_fund_number(n)] @@ <<>>

Keys(fund_name_raw) == KeyTable[fund_name_raw]

FundNumber(name) == FundNumberTable[name]

Rejected(fund_name, fund_name_raw) == HardRejectTable[<<fund_name, fund_name_raw>>]

Score(fund_name, fund_name_raw) == NameScoreTable[<<fund_name, fund_name_raw>>]

GpMatched(general_partner, fund_gp_normalized) ==
    GpMatchTable[<<general_partner, fund_gp_normalized>>]

Created(fund_id, fund_name_raw, general_partner, vintage_year) ==
    [NewFundTable[<<fund_name_raw, general_partner, vintage_year>>] EXCEPT !.id = fund_id]

(***************************************************************************)
(* State                                                                   *)
(***************************************************************************)

VARIABLES
    funds,             \* FundRegistry._funds: the fund dicts in insertion order
    name_to_id,        \* FundRegistry._name_to_id
    alias_to_id,       \* FundRegistry._alias_to_id
    db_funds,          \* table funds
    db_fund_aliases,   \* table fund_aliases
    db_gp_aliases,     \* table gp_aliases
    db_pension_funds,  \* table pension_funds (the ids)
    next_id,           \* the next value of generate_id()
    last,              \* the last call, its arguments and what it returned
    bound,             \* <<fund_name_raw, fund_id, match_type>> of every call of resolve
                       \* that was answered fuzzy or new
    deleted,           \* <<key, fund_id, reloaded>> of every alias deleted from the
                       \* table fund_aliases and not bound to the fund again since;
                       \* reloaded: _load_registry ran after the deletion
    pending,           \* per thread: the call of resolve it is in, what its lookups
                       \* decided, and what its last finished call returned
    run,               \* Pipeline.run: the position in adapters, the locals of
                       \* _run_adapter and the dict results
    db_commitments,    \* table commitments
    db_review_queue,   \* table review_queue
    db_extraction_runs \* table extraction_runs, run_id being the index

vars == <<funds, name_to_id, alias_to_id, db_funds, db_fund_aliases, db_gp_aliases,
          db_pension_funds, next_id, last, bound, deleted, pending, run,
          db_commitments, db_review_queue, db_extraction_runs>>

registry == <<funds, name_to_id, alias_to_id>>

store == <<db_funds, db_fund_aliases, db_gp_aliases, db_pension_funds>>

\* what FundRegistry.resolve, add_fund_alias and upsert_fund never touch
audit == <<deleted>>

\* the calls of resolve that other threads are in
threads == <<pending>>

\* the locals of Pipeline.run and the tables only the pipeline writes
pipeline == <<run, db_commitments, db_review_queue, db_extraction_runs>>

\* the threads that share the registry
Threads == {1, 2}

\* a thread outside resolve that has returned from no call yet
NoPending == [phase |-> "idle", rec |-> <<None, None, NoYear>>, m |-> <<NoId, "none">>, ret |-> <<NoId, "none">>]

\* the pension funds of the adapters handed to Pipeline.run, in order
Adapters == <<calpers, <<"c","a","l","s","t","r","s">>>>

\* Pipeline.run before its loop: results = {}, and no adapter entered
NoRun == [pos |-> 1, run_id |-> NoId, records |-> <<>>, k |-> 0, records_extracted |-> 0, records_flagged |-> 0, results |-> <<>>]

NoCall ==
    [op |-> "none", fund_name_raw |-> None, general_partner |-> None,
     vintage_year |-> NoYear, source |-> None, fund_id |-> NoId,
     match_type |-> "none", alias_id |-> NoId, raised |-> "none"]

\* migrate() on an empty file, the pension fund registered as the pipeline
\* does before any record, and FundRegistry(db): _load_registry of no rows
Init ==
    /\ funds = <<>>
    /\ name_to_id = <<>>
    /\ alias_to_id = <<>>
    /\ db_funds = <<>>
    /\ db_fund_aliases = {}
    /\ db_gp_aliases = {}
    /\ db_pension_funds = {calpers}
    /\ next_id = 1
    /\ last = NoCall
    /\ bound = {}
    /\ deleted = {}
    /\ pending = [t \in Threads |-> NoPending]
    /\ run = NoRun
    /\ db_commitments = {}
    /\ db_review_queue = {}
    /\ db_extraction_runs = <<>>

(***************************************************************************)
(* FundRegistry._fuzzy_match                                               *)
(***************************************************************************)

\* signals, from name_score, Signal 2 and the two vintage years
SignalCount(name_score, gp_signal, vintage_year, fund_vintage_year) ==
    (IF ScoreAbove(name_score, NameSignal) THEN 1 ELSE 0)
    + (IF gp_signal THEN 1 ELSE 0)
    + (IF /\ TruthyYear(vintage_year)
          /\ TruthyYear(fund_vintage_year)
          /\ vintage_year = fund_vintage_year
       THEN 1 ELSE 0)

\* signals of a fund for the input
Signals(fund, fund_name_raw, general_partner, vintage_year) ==
    SignalCount(Score(fund.fund_name, fund_name_raw),
                GpMatched(general_partner, fund.general_partner_normalized),
                vintage_year, fund.vintage_year)

\* the candidate test with one signal being enough
QualifiesOneSignal(fund, fund_name_raw, general_partner, vintage_year, name_score, best_score) ==
    /\ ~Rejected(fund.fund_name, fund_name_raw)
    /\ SignalCount(name_score,
                   GpMatched(general_partner, fund.general_partner_normalized),
                   vintage_year, fund.vintage_year) >= 1
    /\ ScoreAbove(name_score, NameFloor)
    /\ ScoreGreater(name_score, best_score)

\* the candidate test with an equal score replacing the best candidate
QualifiesLatest(fund, fund_name_raw, general_partner, vintage_year, name_score, best_score) ==
    /\ ~Rejected(fund.fund_name, fund_name_raw)
    /\ SignalCount(name_score,
                   GpMatched(general_partner, fund.general_partner_normalized),
                   vintage_year, fund.vintage_year) >= MinSignals
    /\ ScoreAbove(name_score, NameFloor)
    /\ ~ScoreGreater(best_score, name_score)

\* the fund is not rejected and becomes the best candidate
Qualifies(fund, fund_name_raw, general_partner, vintage_year, name_score, best_score) ==
    /\ ~Rejected(fund.fund_name, fund_name_raw)
    /\ SignalCount(name_score,
                   GpMatched(general_partner, fund.general_partner_normalized),
                   vintage_year, fund.vintage_year) >= MinSignals
    /\ ScoreAbove(name_score, NameFloor)
    /\ ScoreGreater(name_score, best_score)

RECURSIVE FuzzyLoop(_, _, _, _, _, _, _)
\* one pass of the loop body, for entry i whose name_score is given
FuzzyStep(fs, i, fund_name_raw, general_partner, vintage_year, best_id, best_score, name_score) ==
    IF Qualifies(fs[i], fund_name_raw, general_partner, vintage_year, name_score,
                 best_score)
    THEN FuzzyLoop(fs, i + 1, fund_name_raw, general_partner, vintage_year,
                   fs[i].id, name_score)
    ELSE FuzzyLoop(fs, i + 1, fund_name_raw, general_partner, vintage_year,
                   best_id, best_score)

\* the loop of _fuzzy_match over self._funds.items(), from entry i on;
\* the result is <<best_id, best_score>>
FuzzyLoop(fs, i, fund_name_raw, general_partner, vintage_year, best_id, best_score) ==
    IF i > Len(fs) THEN <<best_id, best_score>>
    ELSE FuzzyStep(fs, i, fund_name_raw, general_partner, vintage_year, best_id,
                   best_score, Score(fs[i].fund_name, fund_name_raw))

\* _fuzzy_match: <<fund_id, score>>, or <<NoId, 0.0>> for None
fuzzy_match(fs, fund_name_raw, general_partner, vintage_year) ==
    FuzzyLoop(fs, 1, fund_name_raw, general_partner, vintage_year, NoId, <<0, 1>>)

(***************************************************************************)
(* FundRegistry.resolve                                                    *)
(***************************************************************************)

\* the steps of resolve with the alias index looked up by raw_lower only
ResolveStepsRawAliasOnly(n2i, a2i, normalized, raw_lower, best_match) ==
    IF normalized \in DOMAIN n2i THEN <<n2i[normalized], "exact">>
    ELSE IF raw_lower \in DOMAIN a2i THEN <<a2i[raw_lower], "alias">>
    ELSE IF best_match[1] # NoId THEN <<best_match[1], "fuzzy">>
    ELSE <<NoId, "new">>

\* the order of the four steps of resolve on normalized, raw_lower and the
\* result of _fuzzy_match: <<fund_id, match_type>>, the fund_id of a new
\* fund being generated by _create_new_fund
ResolveSteps(n2i, a2i, normalized, raw_lower, best_match) ==
    IF normalized \in DOMAIN n2i THEN <<n2i[normalized], "exact">>
    ELSE IF raw_lower \in DOMAIN a2i THEN <<a2i[raw_lower], "alias">>
    ELSE IF normalized \in DOMAIN a2i THEN <<a2i[normalized], "alias">>
    ELSE IF best_match[1] # NoId THEN <<best_match[1], "fuzzy">>
    ELSE <<NoId, "new">>

ResolveKeys(n2i, a2i, fs, fund_name_raw, general_partner, vintage_year, keys) ==
    ResolveSteps(n2i, a2i, keys.normalized, keys.raw_lower,
                 fuzzy_match(fs, fund_name_raw, general_partner, vintage_year))

resolve_match(n2i, a2i, fs, fund_name_raw, general_partner, vintage_year) ==
    ResolveKeys(n2i, a2i, fs, fund_name_raw, general_partner, vintage_year,
                Keys(fund_name_raw))

AliasKeys(keys) == {keys.raw_lower, keys.normalized}

\* a fuzzy match that adds no key to _alias_to_id
FuzzyAliasKeysNone(fund_name_raw) == {}

\* the keys resolve adds to _alias_to_id after a fuzzy match
FuzzyAliasKeys(fund_name_raw) == AliasKeys(Keys(fund_name_raw))

\* the alias text resolve hands to add_fund_alias after a fuzzy match
FuzzyAliasText(fund_name_raw) == fund_name_raw

\* _create_new_fund calls add_gp_alias
StoresGpAlias(fund) == Truthy(fund.general_partner) /\ fund.fund_name_raw # <<>>

Returned(fund_name_raw, general_partner, vintage_year, source, fund_id, match_type) ==
    [op |-> "resolve", fund_name_raw |-> fund_name_raw,
     general_partner |-> general_partner, vintage_year |-> vintage_year,
     source |-> source, fund_id |-> fund_id, match_type |-> match_type,
     alias_id |-> NoId, raised |-> "none"]

\* resolve returns at step 1 or 2: nothing is written
ResolveKnown(m, fund_name_raw, general_partner, vintage_year, source) ==
    /\ m[2] \in {"exact", "alias"}
    /\ last' = Returned(fund_name_raw, general_partner, vintage_year, source, m[1], m[2])
    /\ UNCHANGED <<registry, store, next_id, bound>>

\* resolve returns at step 3: add_fund_alias, then the two index entries
ResolveFuzzy(m, fund_name_raw, general_partner, vintage_year, source) ==
    /\ m[2] = "fuzzy"
    /\ next_id <= MaxIds
    /\ db_fund_aliases' =
          DbAddFundAlias(db_funds, db_pension_funds, db_fund_aliases, next_id,
                         m[1], FuzzyAliasText(fund_name_raw), source)
    /\ alias_to_id' = [k \in FuzzyAliasKeys(fund_name_raw) |-> m[1]] @@ alias_to_id
    /\ next_id' = next_id + 1
    /\ last' = Returned(fund_name_raw, general_partner, vintage_year, source, m[1], m[2])
    /\ bound' = bound \cup {<<fund_name_raw, m[1], m[2]>>}
    /\ UNCHANGED <<funds, name_to_id, db_funds, db_gp_aliases, db_pension_funds>>

\* _create_new_fund writing the store and not the in-memory indices
CreateNewFundStoreOnly(fund, fund_name_raw, general_partner, vintage_year, source) ==
    /\ next_id + (IF StoresGpAlias(fund) THEN 1 ELSE 0) <= MaxIds
    /\ db_gp_aliases' =
          IF StoresGpAlias(fund)
          THEN DbAddGpAlias(db_gp_aliases, next_id + 1, fund.general_partner,
                            fund_name_raw)
          ELSE db_gp_aliases
    /\ db_funds' = DbUpsertFund(db_funds, fund)
    /\ next_id' = next_id + (IF StoresGpAlias(fund) THEN 2 ELSE 1)
    /\ last' = Returned(fund_name_raw, general_partner, vintage_year, source,
                        fund.id, "new")
    /\ bound' = bound \cup {<<fund_name_raw, fund.id, "new">>}
    /\ UNCHANGED <<registry, db_fund_aliases, db_pension_funds>>

\* _create_new_fund writing the in-memory indices and not the table funds
CreateNewFundMemoryOnly(fund, fund_name_raw, general_partner, vintage_year, source) ==
    /\ next_id + (IF StoresGpAlias(fund) THEN 1 ELSE 0) <= MaxIds
    /\ db_gp_aliases' =
          IF StoresGpAlias(fund)
          THEN DbAddGpAlias(db_gp_aliases, next_id + 1, fund.general_partner,
                            fund_name_raw)
          ELSE db_gp_aliases
    /\ funds' = Append(funds, fund)
    /\ name_to_id' = (NewFundKey(fund) :> fund.id) @@ name_to_id
    /\ next_id' = next_id + (IF StoresGpAlias(fund) THEN 2 ELSE 1)
    /\ last' = Returned(fund_name_raw, general_partner, vintage_year, source,
                        fund.id, "new")
    /\ bound' = bound \cup {<<fund_name_raw, fund.id, "new">>}
    /\ UNCHANGED <<alias_to_id, db_funds, db_fund_aliases, db_pension_funds>>

\* _create_new_fund, fund being the fund dict it builds
CreateNewFund(fund, fund_name_raw, general_partner, vintage_year, source) ==
    /\ next_id + (IF StoresGpAlias(fund) THEN 1 ELSE 0) <= MaxIds
    /\ db_gp_aliases' =
          IF StoresGpAlias(fund)
          THEN DbAddGpAlias(db_gp_aliases, next_id + 1, fund.general_partner,
                            fund_name_raw)
          ELSE db_gp_aliases
    /\ db_funds' = DbUpsertFund(db_funds, fund)
    /\ funds' = Append(funds, fund)
    /\ name_to_id' = (NewFundKey(fund) :> fund.id) @@ name_to_id
    /\ next_id' = next_id + (IF StoresGpAlias(fund) THEN 2 ELSE 1)
    /\ last' = Returned(fund_name_raw, general_partner, vintage_year, source,
                        fund.id, "new")
    /\ bound' = bound \cup {<<fund_name_raw, fund.id, "new">>}
    /\ UNCHANGED <<alias_to_id, db_fund_aliases, db_pension_funds>>

\* resolve reaches step 4: _create_new_fund
ResolveNew(m, fund_name_raw, general_partner, vintage_year, source) ==
    /\ m[2] = "new"
    /\ CreateNewFund(Created(next_id, fund_name_raw, general_partner, vintage_year),
                     fund_name_raw, general_partner, vintage_year, source)

\* resolve, m being <<fund_id, match_type>> of the step that answers
ResolveAs(m, fund_name_raw, general_partner, vintage_year, source) ==
    \/ ResolveKnown(m, fund_name_raw, general_partner, vintage_year, source)
    \/ ResolveFuzzy(m, fund_name_raw, general_partner, vintage_year, source)
    \/ ResolveNew(m, fund_name_raw, general_partner, vintage_year, source)

Resolve(fund_name_raw, general_partner, vintage_year, source) ==
    ResolveAs(resolve_match(name_to_id, alias_to_id, funds, fund_name_raw,
                            general_partner, vintage_year),
              fund_name_raw, general_partner, vintage_year, source)

(***************************************************************************)
(* FundRegistry.get_stats                                                  *)
(***************************************************************************)

\* get_stats counting the keys of _name_to_id
GetStatsByName(fs, n2i, a2i) ==
    [total_funds |-> Cardinality(DOMAIN n2i), total_aliases |-> Cardinality(DOMAIN a2i)]

\* get_stats on _funds, _name_to_id and _alias_to_id; _funds is a dict keyed
\* by fund id, so len(self._funds) counts the ids
get_stats(fs, n2i, a2i) ==
    [total_funds |-> Cardinality({fs[i].id : i \in DOMAIN fs}),
     total_aliases |-> Cardinality(DOMAIN a2i)]

(***************************************************************************)
(* Database.add_fund_alias called on the store directly                    *)
(***************************************************************************)

AddFundAlias(fund_id, alias, source) ==
    /\ next_id <= MaxIds
    /\ db_fund_aliases' =
          DbAddFundAlias(db_funds, db_pension_funds, db_fund_aliases, next_id,
                         fund_id, alias, source)
    /\ next_id' = next_id + 1
    /\ \E ret \in AddFundAliasReturns(db_funds, db_pension_funds, db_fund_aliases,
                                      next_id, fund_id, alias, source) :
          last' = [NoCall EXCEPT !.op = "add_fund_alias", !.fund_name_raw = alias,
                                 !.source = source, !.fund_id = fund_id,
                                 !.alias_id = ret]
    /\ UNCHANGED <<registry, db_funds, db_gp_aliases, db_pension_funds, bound>>

Next ==
    \/ \E r \in Records, src \in SourceIds :
          Resolve(r[1], r[2], r[3], src) /\ UNCHANGED <<audit, threads, pipeline>>
    \/ \E f \in FundIds, a \in AliasTexts, src \in SourceIds :
          AddFundAlias(f, a, src) /\ UNCHANGED <<audit, threads, pipeline>>

Spec == Init /\ [][Next]_vars

(***************************************************************************)
(* Database.upsert_fund called on the store directly                       *)
(***************************************************************************)

\* the arguments of the direct calls of upsert_fund: the columns observed
\* for a record, under the id of a row
UpsertRows ==
    {[NewFundTable[r] EXCEPT !.id = f] :
        r \in {<<LP, None, NoYear>>, <<KKR_Fund_XII, KKR, 2017>>}, f \in FundIds}

UpsertFund(row) ==
    /\ db_funds' = DbUpsertFund(db_funds, row)
    /\ last' = [NoCall EXCEPT !.op = "upsert_fund", !.fund_name_raw = row.fund_name_raw,
                              !.general_partner = row.general_partner,
                              !.vintage_year = row.vintage_year, !.fund_id = row.id]
    /\ UNCHANGED <<registry, db_fund_aliases, db_gp_aliases, db_pension_funds,
                   next_id, bound>>

\* the records resolved between the calls of upsert_fund
StoreRecords == {<<KKR_Fund, None, 2017>>, <<KKR_Fund_XII, KKR, 2017>>, <<LP, None, NoYear>>}

StoreNext ==
    \/ \E r \in StoreRecords : Resolve(r[1], r[2], r[3], calpers) /\ UNCHANGED <<audit, threads, pipeline>>
    \/ \E row \in UpsertRows : UpsertFund(row) /\ UNCHANGED <<audit, threads, pipeline>>

StoreSpec == Init /\ [][StoreNext]_vars

(***************************************************************************)
(* An alias deleted from the store, and FundRegistry(db) constructed again *)
(***************************************************************************)

\* the ids of the table funds in the order of SELECT * FROM funds, the order
\* in which the rows were inserted
RECURSIVE ListIds(_)
ListIds(ids) ==
    IF ids = {} THEN <<>>
    ELSE LET first == CHOOSE i \in ids : \A j \in ids : i <= j
         IN  <<first>> \o ListIds(ids \ {first})

\* normalize_fund_name(fund["fund_name"]).lower() of the funds
CanonicalKeyTable == [n \in CanonicalNames |-> NormalizedKey(n)] @@ <<>>

\* _load_registry: self._alias_to_id that is kept where it should be emptied
KeptAliasIndex(a2i) == a2i

\* _load_registry: self._alias_to_id = {}
EmptiedAliasIndex(a2i) == <<>>

\* _load_registry: the loop over list_funds(), fs being its result and keys
\* the key of each fund; of two funds with one key the later one keeps it
LoadedNames(fs, keys) ==
    [k \in {keys[i] : i \in DOMAIN fs} |->
        fs[CHOOSE i \in DOMAIN fs :
              keys[i] = k /\ \A j \in DOMAIN fs : keys[j] = k => j <= i].id]

\* _load_registry: the indexes the loop over get_fund_aliases() can make of
\* a2i; SELECT * FROM fund_aliases has no ORDER BY, so of two rows with one
\* key either can be the later one
LoadedAliases(a2i, alias_tbl) ==
    {f @@ a2i : f \in {g \in [{Lower(r.alias) : r \in alias_tbl} -> FundIds] :
                          \A k \in DOMAIN g :
                             \E r \in alias_tbl : Lower(r.alias) = k /\ r.fund_id = g[k]}}

\* FundRegistry(db) on the store as it is: _load_registry
LoadRegistry ==
    /\ \E fs \in {[i \in 1..Cardinality(DOMAIN db_funds) |-> db_funds[ListIds(DOMAIN db_funds)[i]]]} :
          /\ funds' = fs
          /\ \E keys \in {[i \in DOMAIN fs |-> CanonicalKeyTable[fs[i].fund_name]]} :
                name_to_id' = LoadedNames(fs, keys)
    /\ alias_to_id' \in LoadedAliases(EmptiedAliasIndex(alias_to_id), db_fund_aliases)
    /\ last' = [NoCall EXCEPT !.op = "load_registry"]
    /\ deleted' = {<<d[1], d[2], TRUE>> : d \in deleted}
    /\ UNCHANGED <<store, next_id, bound>>

\* DELETE FROM fund_aliases of the rows that bind the alias text of key to
\* fund_id, by hand: Database has no method for it
DeleteFundAlias(key, fund_id) ==
    /\ \E r \in db_fund_aliases : Lower(r.alias) = key /\ r.fund_id = fund_id
    /\ db_fund_aliases' =
          {r \in db_fund_aliases : ~(Lower(r.alias) = key /\ r.fund_id = fund_id)}
    /\ deleted' = deleted \cup {<<key, fund_id, FALSE>>}
    /\ last' = [NoCall EXCEPT !.op = "delete_fund_alias", !.fund_id = fund_id]
    /\ UNCHANGED <<registry, db_funds, db_gp_aliases, db_pension_funds, next_id, bound>>

\* resolve on a registry of which aliases were deleted: a fuzzy answer binds
\* its keys to the fund again
AuditResolve(fund_name_raw, general_partner, vintage_year, source) ==
    /\ Resolve(fund_name_raw, general_partner, vintage_year, source)
    /\ deleted' = IF last'.match_type = "fuzzy"
                  THEN {d \in deleted : ~(/\ d[1] \in FuzzyAliasKeys(fund_name_raw)
                                           /\ d[2] = last'.fund_id)}
                  ELSE deleted

\* the records resolved before and after a deletion
AuditRecords ==
    {<<KKR_Fund, None, 2017>>, <<KKR_Fund_XII, KKR, 2017>>,
     <<KKR_Fund_XII_LP, KKR, 2017>>, <<KKR_Fund_XII, None, NoYear>>}

AuditNext ==
    \/ \E r \in AuditRecords :
          AuditResolve(r[1], r[2], r[3], calpers) /\ UNCHANGED <<threads, pipeline>>
    \/ \E r \in AuditRecords, f \in FundIds :
          DeleteFundAlias(KeyTable[r[1]].raw_lower, f) /\ UNCHANGED <<threads, pipeline>>
    \/ LoadRegistry /\ UNCHANGED <<threads, pipeline>>

AuditSpec == Init /\ [][AuditNext]_vars

(***************************************************************************)
(* Two threads in resolve on one registry                                  *)
(***************************************************************************)

\* sqlite3.connect(..., check_same_thread=False): every thread may use the
\* connection
UsableInAnyThread(t) == TRUE

\* Database.conn: sqlite3.connect(str(self.db_path)) with the default
\* check_same_thread=True, called first by migrate() and _load_registry in
\* the thread that builds the registry, thread 1; in every other thread each
\* method of the connection raises sqlite3.ProgrammingError
UsableIn(t) == t = 1

\* thread t enters resolve and runs the lookups of steps 1 to 3, which read
\* the in-memory indexes only
BeginResolve(t, fund_name_raw, general_partner, vintage_year) ==
    /\ pending[t].phase = "idle"
    /\ pending' = [pending EXCEPT ![t] =
          [phase |-> "looked_up",
           rec |-> <<fund_name_raw, general_partner, vintage_year>>,
           m |-> resolve_match(name_to_id, alias_to_id, funds, fund_name_raw,
                               general_partner, vintage_year),
           ret |-> @.ret]]
    /\ UNCHANGED <<registry, store, next_id, last, bound>>

\* thread t in add_fund_alias, add_gp_alias or upsert_fund, the first store
\* call of the fuzzy and the new branch: self.conn.execute raises before any
\* row or index entry is written
ResolveRaises(t) ==
    /\ pending[t].m[2] \in {"fuzzy", "new"}
    /\ ~UsableIn(t)
    /\ last' = [Returned(pending[t].rec[1], pending[t].rec[2], pending[t].rec[3], calpers, NoId, "none") EXCEPT !.raised = "ProgrammingError"]
    /\ pending' = [pending EXCEPT ![t] =
          [phase |-> "idle", rec |-> @.rec, m |-> @.m,
           ret |-> <<NoId, "ProgrammingError">>]]
    /\ UNCHANGED <<registry, store, next_id, bound>>

\* thread t runs the step that answered, on what its lookups decided: no
\* lock is taken and no index is read again
ResolveReturns(t) ==
    /\ pending[t].m[2] \in {"exact", "alias"} \/ UsableIn(t)
    /\ ResolveAs(pending[t].m, pending[t].rec[1], pending[t].rec[2],
                 pending[t].rec[3], calpers)
    /\ pending' = [pending EXCEPT ![t] =
          [phase |-> "idle", rec |-> @.rec, m |-> @.m,
           ret |-> <<last'.fund_id, last'.match_type>>]]

\* thread t leaves resolve
FinishResolve(t) ==
    /\ pending[t].phase = "looked_up"
    /\ ResolveReturns(t) \/ ResolveRaises(t)

ConcurrentNext ==
    \/ \E t \in Threads, r \in {<<KKR_Fund, None, 2017>>, <<KKR_Fund_XII, KKR, 2017>>} :
          BeginResolve(t, r[1], r[2], r[3]) /\ UNCHANGED <<audit, pipeline>>
    \/ \E t \in Threads : FinishResolve(t) /\ UNCHANGED <<audit, pipeline>>

ConcurrentSpec == Init /\ [][ConcurrentNext]_vars

(***************************************************************************)
(* Pipeline.run and Pipeline._run_adapter                                  *)
(***************************************************************************)

\* what adapter.parse can return: one or two records, each without
\* as_of_date and without extraction_confidence
RecordLists ==
    LET R == {<<KKR_Fund, None, 2017>>, <<KKR_Fund_XII, KKR, 2017>>, <<KKR_Fund_XII_LP, KKR, 2017>>}
    IN  {<<r>> : r \in R} \cup {<<r, q>> : r \in R, q \in R}

\* Pipeline.run leaving the loop on an exception of _run_adapter
Propagated(r, adapter_name, e) ==
    [NoRun EXCEPT !.pos = Len(Adapters) + 1,
                  !.results = (adapter_name :> [status |-> "error", error |-> e, records_extracted |-> 0, records_updated |-> 0, records_flagged |-> 0]) @@ r.results]

\* Pipeline.run, except Exception as e: the error result of the adapter,
\* and the loop goes on with the next adapter
Caught(r, adapter_name, e) ==
    [NoRun EXCEPT !.pos = r.pos + 1,
                  !.results = (adapter_name :> [status |-> "error", error |-> e, records_extracted |-> 0, records_updated |-> 0, records_flagged |-> 0]) @@ r.results]

\* complete_extraction_run that updates the row for status completed only
CompleteExtractionRunOnSuccess(runs, run_id, status, records_extracted, records_flagged) ==
    IF status = "completed"
    THEN [runs EXCEPT ![run_id] = [@ EXCEPT !.status = status, !.records_extracted = records_extracted, !.records_flagged = records_flagged]]
    ELSE runs

\* complete_extraction_run(run_id, status, records_extracted, ..., records_flagged)
CompleteExtractionRun(runs, run_id, status, records_extracted, records_flagged) ==
    [runs EXCEPT ![run_id] = [@ EXCEPT !.status = status, !.records_extracted = records_extracted, !.records_flagged = records_flagged]]

\* get_last_extraction_run(pension_fund_id): the rows of the pension fund
\* ORDER BY started_at DESC LIMIT 1, whatever their status; the empty set
\* stands for None
LastExtractionRun(runs, pension_fund_id) ==
    {runs[i] : i \in {i \in DOMAIN runs :
                        /\ runs[i].pension_fund_id = pension_fund_id
                        /\ \A j \in DOMAIN runs :
                              runs[j].pension_fund_id = pension_fund_id => j <= i}}

\* the value of adapter.get_source_hash(raw_data) in a run of the pipeline
\* whose source is the one the tests use
SourceHash == "h1"

\* _run_adapter up to the loop over the records: upsert_pension_fund,
\* fetch_source, get_source_hash, the check of the last run's hash (force is
\* False), create_extraction_run, parse. fail names the call that raises.
StartAdapter(records, fail, source_hash) ==
    /\ run.pos <= Len(Adapters)
    /\ run.run_id = NoId
    /\ db_pension_funds' = db_pension_funds \cup {Adapters[run.pos]}
    /\ IF fail = "fetch_source"
       THEN /\ run' = Caught(run, Adapters[run.pos], "FileNotFoundError")
            /\ UNCHANGED db_extraction_runs
       ELSE IF \E last_run \in LastExtractionRun(db_extraction_runs, Adapters[run.pos]) :
                  last_run.source_hash = source_hash
       THEN /\ run' = [NoRun EXCEPT !.pos = run.pos + 1,
                                    !.results = (Adapters[run.pos] :> [status |-> "skipped", error |-> "none", records_extracted |-> 0, records_updated |-> 0, records_flagged |-> 0]) @@ run.results]
            /\ UNCHANGED db_extraction_runs
       ELSE IF fail = "parse"
       THEN /\ db_extraction_runs' = CompleteExtractionRun(Append(db_extraction_runs, [pension_fund_id |-> Adapters[run.pos], status |-> "running", records_extracted |-> 0, records_flagged |-> 0, source_hash |-> source_hash]), Len(db_extraction_runs) + 1, "error", 0, 0)
            /\ run' = Caught(run, Adapters[run.pos], "ValueError")
       ELSE /\ db_extraction_runs' = Append(db_extraction_runs, [pension_fund_id |-> Adapters[run.pos], status |-> "running", records_extracted |-> 0, records_flagged |-> 0, source_hash |-> source_hash])
            /\ run' = [run EXCEPT !.run_id = Len(db_extraction_runs) + 1, !.records = records, !.k = 0, !.records_extracted = 0, !.records_flagged = 0]
    /\ UNCHANGED <<registry, db_funds, db_fund_aliases, db_gp_aliases, next_id, last, bound, db_commitments, db_review_queue>>

\* the body of the loop after resolve: upsert_commitment, whose row gets the
\* id commitment_id, and, for a fuzzy answer, add_review_item with
\* flag_detail f"Fund '{fund_name_raw}' fuzzy-matched to {fund_id}"; the
\* record carries no extraction_confidence, so confidence is 1.0
StoreRecord(fail, adapter_name, commitment_id, fund_id, match_type, fund_name_raw) ==
    /\ fail = "add_review_item" => match_type = "fuzzy"
    /\ db_commitments' =
          IF fail = "upsert_commitment" THEN db_commitments
          ELSE db_commitments \cup {[id |-> commitment_id, pension_fund_id |-> adapter_name, fund_id |-> fund_id]}
    /\ db_review_queue' =
          IF fail = "none" /\ match_type = "fuzzy"
          THEN db_review_queue \cup {[commitment_id |-> commitment_id, flag_type |-> "fuzzy_match", flag_detail |-> [fund_name_raw |-> fund_name_raw, fund_id |-> fund_id]]}
          ELSE db_review_queue
    /\ IF fail = "none"
       THEN /\ run' = [run EXCEPT !.k = @ + 1, !.records_extracted = @ + 1, !.records_flagged = @ + (IF match_type = "fuzzy" THEN 1 ELSE 0)]
            /\ UNCHANGED db_extraction_runs
       ELSE /\ run' = Caught(run, adapter_name, "OperationalError")
            /\ db_extraction_runs' = CompleteExtractionRun(db_extraction_runs, run.run_id, "error", 0, 0)

\* the loop is left by an exception of resolve, raised before resolve wrote
\* anything: except Exception marks the run and raises again
ResolveRaisesInRun(adapter_name) ==
    /\ run' = Caught(run, adapter_name, "OperationalError")
    /\ db_extraction_runs' = CompleteExtractionRun(db_extraction_runs, run.run_id, "error", 0, 0)
    /\ UNCHANGED <<registry, store, next_id, last, bound, db_commitments, db_review_queue>>

\* one pass of the loop over the records; fail names the call that raises
\* sqlite3.OperationalError, if any
ProcessRecord(fail) ==
    /\ run.run_id # NoId
    /\ run.k < Len(run.records)
    /\ IF fail = "resolve"
       THEN ResolveRaisesInRun(Adapters[run.pos])
       ELSE /\ Resolve(run.records[run.k + 1][1], run.records[run.k + 1][2], run.records[run.k + 1][3], Adapters[run.pos])
            /\ StoreRecord(fail, Adapters[run.pos], <<run.pos, run.k + 1>>, last'.fund_id, last'.match_type, run.records[run.k + 1][1])

\* _run_adapter after the loop: _extract_consulting_data of an adapter with
\* no consulting records, complete_extraction_run, and the result dict
FinishAdapter ==
    /\ run.run_id # NoId
    /\ run.k = Len(run.records)
    /\ db_extraction_runs' = CompleteExtractionRun(db_extraction_runs, run.run_id, "completed", run.records_extracted, run.records_flagged)
    /\ run' = [NoRun EXCEPT !.pos = run.pos + 1,
                            !.results = (Adapters[run.pos] :> [status |-> "completed", error |-> "none", records_extracted |-> run.records_extracted, records_updated |-> 0, records_flagged |-> run.records_flagged]) @@ run.results]
    /\ UNCHANGED <<registry, store, next_id, last, bound, db_commitments, db_review_queue>>

PipelineNext ==
    \/ \E records \in RecordLists, fail \in {"none", "fetch_source", "parse"} :
          StartAdapter(records, fail, SourceHash) /\ UNCHANGED <<audit, threads>>
    \/ \E fail \in {"none", "resolve", "upsert_commitment", "add_review_item"} :
          ProcessRecord(fail) /\ UNCHANGED <<audit, threads>>
    \/ FinishAdapter /\ UNCHANGED <<audit, threads>>

PipelineSpec == Init /\ [][PipelineNext]_vars

\* Pipeline.run is sequential code: a call that can take a step takes it
PipelineLiveSpec == PipelineSpec /\ WF_vars(PipelineNext)

(***************************************************************************)
(* Pipeline.run called again on the same store                             *)
(***************************************************************************)

\* the values of adapter.get_source_hash(raw_data): the source as it was, and
\* the source after a change
SourceHashes == {SourceHash, "h2"}

\* the rows of extraction_runs after which Pipeline.run is not called again
MaxRuns == 3

\* Pipeline.run(adapters), force=False, called after the previous call
\* returned: results = {}
RunPipeline ==
    /\ run.pos > Len(Adapters)
    /\ Len(db_extraction_runs) < MaxRuns
    /\ run' = NoRun
    /\ UNCHANGED <<registry, store, next_id, last, bound, db_commitments, db_review_queue, db_extraction_runs>>

RerunNext ==
    \/ \E fail \in {"none", "fetch_source", "parse"}, source_hash \in SourceHashes :
          StartAdapter(<<<<KKR_Fund, None, 2017>>>>, fail, source_hash) /\ UNCHANGED <<audit, threads>>
    \/ \E fail \in {"none", "resolve", "upsert_commitment"} :
          ProcessRecord(fail) /\ UNCHANGED <<audit, threads>>
    \/ FinishAdapter /\ UNCHANGED <<audit, threads>>
    \/ RunPipeline /\ UNCHANGED <<audit, threads>>

RerunSpec == Init /\ [][RerunNext]_vars

(***************************************************************************)
(* resolve with a store method that raises                                 *)
(***************************************************************************)

\* the store methods resolve calls
StoreCalls == {"add_fund_alias", "add_gp_alias", "upsert_fund"}

\* resolve left by an exception of the store method failed, which is no
\* sqlite3.IntegrityError of add_fund_alias or add_gp_alias
Raised(fund_name_raw, general_partner, vintage_year, source, failed) ==
    [failed |-> failed] @@
    [Returned(fund_name_raw, general_partner, vintage_year, source, NoId, "none")
        EXCEPT !.raised = "OperationalError"]

\* step 3 with add_fund_alias raising: the two index entries are not reached
ResolveFuzzyFails(m, fund_name_raw, general_partner, vintage_year, source) ==
    /\ m[2] = "fuzzy"
    /\ next_id <= MaxIds
    /\ next_id' = next_id + 1
    /\ last' = Raised(fund_name_raw, general_partner, vintage_year, source, "add_fund_alias")
    /\ UNCHANGED <<registry, store, bound>>

\* _create_new_fund with add_gp_alias raising: nothing was written before it
CreateNewFundFailsFirst(fund, fund_name_raw, general_partner, vintage_year, source) ==
    /\ StoresGpAlias(fund)
    /\ next_id + 1 <= MaxIds
    /\ next_id' = next_id + 2
    /\ last' = Raised(fund_name_raw, general_partner, vintage_year, source, "add_gp_alias")
    /\ UNCHANGED <<registry, store, bound>>

\* _create_new_fund with upsert_fund raising: add_gp_alias has inserted and
\* committed its row, the in-memory update is not reached
CreateNewFundFailsSecond(fund, fund_name_raw, general_partner, vintage_year, source) ==
    /\ next_id + (IF StoresGpAlias(fund) THEN 1 ELSE 0) <= MaxIds
    /\ db_gp_aliases' =
          IF StoresGpAlias(fund)
          THEN DbAddGpAlias(db_gp_aliases, next_id + 1, fund.general_partner,
                            fund_name_raw)
          ELSE db_gp_aliases
    /\ next_id' = next_id + (IF StoresGpAlias(fund) THEN 2 ELSE 1)
    /\ last' = Raised(fund_name_raw, general_partner, vintage_year, source, "upsert_fund")
    /\ UNCHANGED <<registry, db_funds, db_fund_aliases, db_pension_funds, bound>>

\* resolve in which the store method failed raises when it is called
ResolveFailsAs(m, fund_name_raw, general_partner, vintage_year, source, failed) ==
    \/ /\ failed = "add_fund_alias"
       /\ ResolveFuzzyFails(m, fund_name_raw, general_partner, vintage_year, source)
    \/ /\ failed = "add_gp_alias"
       /\ m[2] = "new"
       /\ CreateNewFundFailsFirst(Created(next_id, fund_name_raw, general_partner, vintage_year),
                                  fund_name_raw, general_partner, vintage_year, source)
    \/ /\ failed = "upsert_fund"
       /\ m[2] = "new"
       /\ CreateNewFundFailsSecond(Created(next_id, fund_name_raw, general_partner, vintage_year),
                                   fund_name_raw, general_partner, vintage_year, source)

\* resolve on a store of which the method failed raises, every method
\* working when failed is "none"; m is what the lookups of steps 1 to 3 decide
ResolveOnStore(fund_name_raw, general_partner, vintage_year, source, failed) ==
    \E m \in {resolve_match(name_to_id, alias_to_id, funds, fund_name_raw,
                             general_partner, vintage_year)} :
        \/ /\ failed = "none"
           /\ ResolveAs(m, fund_name_raw, general_partner, vintage_year, source)
        \/ ResolveFailsAs(m, fund_name_raw, general_partner, vintage_year, source, failed)

FaultNext ==
    \E r \in AuditRecords, failed \in StoreCalls \cup {"none"} :
        ResolveOnStore(r[1], r[2], r[3], calpers, failed) /\ UNCHANGED <<audit, threads, pipeline>>

FaultSpec == Init /\ [][FaultNext]_vars

(***************************************************************************)
(* The pure functions called on their own                                  *)
(***************************************************************************)

\* the names handed to extract_fund_number: up to three of these tokens,
\* joined by blanks
NumberTokens ==
    {<<"F","u","n","d">>, <<"R","e","v">>, <<"I">>, <<"V">>, <<"I","I">>, <<"x","i","i",".">>}

NumberNames ==
    {<<>>} \cup {Join(ts) : ts \in {<<t>> : t \in NumberTokens} \cup (NumberTokens \X NumberTokens) \cup (NumberTokens \X NumberTokens \X NumberTokens)}

\* the names handed to normalize_fund_name: a name followed by up to two
\* legal suffixes
LegalSuffixes ==
    {<<" ","L","P">>, <<","," ","L",".","P",".">>, <<" ","L","L","C">>, <<" ","L","t","d",".">>, <<","," ","I","n","c">>, <<" ","C","o",".">>}

SuffixedNames ==
    {<<>>, LP} \cup {<<"K","K","R"," ","F","d">> \o t : t \in {<<>>} \cup LegalSuffixes \cup {u \o v : u \in LegalSuffixes, v \in LegalSuffixes}}

\* extract_fund_number(name), called on its own
ExtractFundNumber(name) ==
    /\ last = NoCall
    /\ last' = [op |-> "extract_fund_number", name |-> name, result |-> extract_fund_number(name)]
    /\ UNCHANGED <<registry, store, next_id, bound>>

\* normalize_fund_name(name), and normalize_fund_name of its result as
\* _load_registry applies it to the stored canonical name
NormalizeFundName(name) ==
    /\ last = NoCall
    /\ \E s \in {normalize_fund_name(name)} :
          last' = [op |-> "normalize_fund_name", name |-> name, result |-> s, again |-> normalize_fund_name(s)]
    /\ UNCHANGED <<registry, store, next_id, bound>>

\* the records whose funds are in self._funds when _fuzzy_match is called
FundRecords ==
    {<<KKR_Fund, None, 2017>>, <<KKR_Fund_XII, KKR, 2017>>, <<KKR_Fund_XI, KKR, 2017>>,
     <<KKR_XII_Fund, KKR, NoYear>>}

\* the largest number of funds in self._funds when _fuzzy_match is called
MaxFunds == 2

\* self._funds in insertion order, the ids being handed out in that order
FundLists ==
    {[i \in DOMAIN rs |-> Created(i, rs[i][1], rs[i][2], rs[i][3])] :
        rs \in UNION {[1..n -> FundRecords] : n \in 1..MaxFunds}}

\* _fuzzy_match(fund_name_raw, normalized, general_partner, vintage_year) on
\* the registry fs, normalized being what resolve computes from fund_name_raw
FuzzyMatch(fs, fund_name_raw, general_partner, vintage_year) ==
    /\ last = NoCall
    /\ last' = [op |-> "_fuzzy_match", funds |-> fs, fund_name_raw |-> fund_name_raw,
                general_partner |-> general_partner, vintage_year |-> vintage_year,
                result |-> fuzzy_match(fs, fund_name_raw, general_partner, vintage_year)]
    /\ UNCHANGED <<registry, store, next_id, bound>>

\* one call of a function that reads no state, made after construction
PureNext ==
    \/ \E name \in NumberNames : ExtractFundNumber(name) /\ UNCHANGED <<audit, threads, pipeline>>
    \/ \E name \in SuffixedNames : NormalizeFundName(name) /\ UNCHANGED <<audit, threads, pipeline>>
    \/ \E fs \in FundLists, r \in AllRecords :
          FuzzyMatch(fs, r[1], r[2], r[3]) /\ UNCHANGED <<audit, threads, pipeline>>

PureSpec == Init /\ [][PureNext]_vars

(***************************************************************************)
(* Properties of resolve and add_fund_alias                                *)
(***************************************************************************)

\* the fund dict of fund_id in self._funds
FundOf(fs, fund_id) == fs[CHOOSE i \in DOMAIN fs : fs[i].id = fund_id]

\* the test of _fuzzy_match that makes a fund a candidate for the input
IsCandidate(fund, fund_name_raw, general_partner, vintage_year) ==
    /\ ~Rejected(fund.fund_name, fund_name_raw)
    /\ Signals(fund, fund_name_raw, general_partner, vintage_year) >= MinSignals
    /\ ScoreAbove(Score(fund.fund_name, fund_name_raw), NameFloor)

\* the raw name is empty or whitespace only
IsBlank(fund_name_raw) == Keys(fund_name_raw).raw_lower = <<>>

\* C1: when resolve(x) is followed immediately by resolve(x), x not blank,
\* the second call returns the fund_id of the first, its match_type is exact
\* or alias, and it creates no fund.
C1_ResolveIdempotent ==
    [][(/\ last.op = "resolve"
        /\ last'.op = "resolve"
        /\ last'.fund_name_raw = last.fund_name_raw
        /\ ~IsBlank(last.fund_name_raw))
       => (/\ last'.fund_id = last.fund_id
           /\ last'.match_type \in {"exact", "alias"}
           /\ funds' = funds)]_vars

\* C2: a call of resolve with an empty or whitespace-only raw name raises
\* EmptyNameError and leaves the in-memory indices and the store's funds and
\* aliases as they were.
C2_EmptyNameRejected ==
    [][(last'.op = "resolve" /\ IsBlank(last'.fund_name_raw))
       => (/\ last'.raised = "EmptyNameError"
           /\ UNCHANGED <<funds, name_to_id, alias_to_id, db_funds, db_fund_aliases>>)]_vars

\* C3: when resolve answers fuzzy with fund F, at least two of the three
\* signals hold for F (name similarity > 0.85; a GP on both sides and GP
\* similarity > 0.85; a vintage year on both sides and the two equal), the
\* name similarity is > 0.75, and the call supplied a GP or a vintage year.
C3_TwoSignals ==
    [][(last'.op = "resolve" /\ last'.match_type = "fuzzy")
       => LET F == FundOf(funds, last'.fund_id)
              name_score == Score(F.fund_name, last'.fund_name_raw)
              name_signal == ScoreAbove(name_score, 85)
              gp_signal == /\ last'.general_partner # None
                           /\ F.general_partner_normalized # None
                           /\ GpMatched(last'.general_partner,
                                        F.general_partner_normalized)
              vintage_signal == /\ last'.vintage_year # NoYear
                                /\ F.vintage_year # NoYear
                                /\ last'.vintage_year = F.vintage_year
          IN  /\ \/ name_signal /\ gp_signal
                 \/ name_signal /\ vintage_signal
                 \/ gp_signal /\ vintage_signal
              /\ ScoreAbove(name_score, 75)
              /\ ~(last'.general_partner = None /\ last'.vintage_year = NoYear)]_vars

\* a fuzzy answer that rests on the name and the GP signal, no vintage given
C3_Witness ==
    /\ last.op = "resolve"
    /\ last.match_type = "fuzzy"
    /\ last.vintage_year = NoYear
    /\ last.general_partner # None

\* C4 as claimed: any two raw names whose fund numbers are both non-null and
\* different were given two distinct fund_ids.
C4_NoCrossSeriesMerge ==
    \A b1 \in bound, b2 \in bound :
        (/\ FundNumber(b1[1]) # None
         /\ FundNumber(b2[1]) # None
         /\ FundNumber(b1[1]) # FundNumber(b2[1]))
        => b1[2] # b2[2]

\* C4 amended: resolve never answers fuzzy with a fund whose canonical name
\* has a fund number different from the non-null fund number of the input,
\* so two raw names with different non-null fund numbers are fuzzy-matched to
\* one fund only if its canonical name has no fund number; and a name that is
\* answered new gets a fund_id no earlier call was given.
C4_NoMergeAcrossNumberedFunds ==
    /\ \A b \in bound :
          b[3] = "fuzzy"
          => \/ FundNumber(b[1]) = None
             \/ FundNumber(FundOf(funds, b[2]).fund_name) = None
             \/ FundNumber(b[1]) = FundNumber(FundOf(funds, b[2]).fund_name)
    /\ \A b1 \in bound, b2 \in bound :
          (/\ b1[3] = "fuzzy"
           /\ b2[3] = "fuzzy"
           /\ b1[2] = b2[2]
           /\ FundNumber(b1[1]) # None
           /\ FundNumber(b2[1]) # None
           /\ FundNumber(b1[1]) # FundNumber(b2[1]))
          => FundNumber(FundOf(funds, b1[2]).fund_name) = None
    /\ \A b1 \in bound, b2 \in bound :
          (b1[3] = "new" /\ b2[3] = "new" /\ b1[1] # b2[1]) => b1[2] # b2[2]

\* two names with the fund numbers XII and XI, both fuzzy-matched to one fund
C4_Witness ==
    \E b1 \in bound, b2 \in bound :
        /\ b1[3] = "fuzzy"
        /\ b2[3] = "fuzzy"
        /\ b1[2] = b2[2]
        /\ FundNumber(b1[1]) # None
        /\ FundNumber(b2[1]) # None
        /\ FundNumber(b1[1]) # FundNumber(b2[1])

\* C5: resolve answers (fund, exact) when the lowercased normalized input is
\* a key of _name_to_id; otherwise (fund, alias) when the lowercased raw or
\* the lowercased normalized string is a key of _alias_to_id; otherwise
\* (candidate, fuzzy) when a fund is a candidate; and new only otherwise.
C5_ResolutionOrder ==
    [][last'.op = "resolve"
       => LET normalized == Keys(last'.fund_name_raw).normalized
              raw_lower == Keys(last'.fund_name_raw).raw_lower
              candidates == {i \in DOMAIN funds :
                               IsCandidate(funds[i], last'.fund_name_raw,
                                           last'.general_partner, last'.vintage_year)}
          IN  IF normalized \in DOMAIN name_to_id
              THEN /\ last'.match_type = "exact"
                   /\ last'.fund_id = name_to_id[normalized]
              ELSE IF raw_lower \in DOMAIN alias_to_id \/ normalized \in DOMAIN alias_to_id
              THEN /\ last'.match_type = "alias"
                   /\ last'.fund_id \in
                         {alias_to_id[k] : k \in {raw_lower, normalized}
                                                   \cap DOMAIN alias_to_id}
              ELSE IF candidates # {}
              THEN /\ last'.match_type = "fuzzy"
                   /\ \E i \in candidates : funds[i].id = last'.fund_id
              ELSE last'.match_type = "new"]_vars

\* a call answered alias through the normalized key, its raw key being no
\* key of the alias index, while a fund is a candidate for it
C5_Witness ==
    /\ last.op = "resolve"
    /\ last.match_type = "alias"
    /\ Keys(last.fund_name_raw).raw_lower \notin DOMAIN alias_to_id
    /\ \E i \in DOMAIN funds :
          IsCandidate(funds[i], last.fund_name_raw, last.general_partner,
                      last.vintage_year)

\* C6: once resolve(x) was answered (F, fuzzy), every later resolve(x), with
\* any GP and vintage, is answered (F, alias).
C6_AliasPromotion ==
    [][last'.op = "resolve"
       => \A b \in bound :
             (b[1] = last'.fund_name_raw /\ b[3] = "fuzzy")
             => (last'.fund_id = b[2] /\ last'.match_type = "alias")]_vars

\* a call without GP and vintage answered alias for a name that was
\* answered fuzzy before
C6_Witness ==
    /\ last.op = "resolve"
    /\ last.match_type = "alias"
    /\ last.general_partner = None
    /\ last.vintage_year = NoYear
    /\ <<last.fund_name_raw, last.fund_id, "fuzzy">> \in bound

\* C7: when resolve answers (F, new), F is in _funds and _name_to_id when
\* the call returns; and the next call of resolve is answered (F, exact) if
\* its normalized name is F's canonical name, and, if F is a candidate for
\* it, creates no fund and is answered fuzzy when neither index answers, with
\* F when the name score of F exceeds that of every other candidate.
C7_ReadYourWrites ==
    [][/\ (last'.op = "resolve" /\ last'.match_type = "new")
          => /\ \E i \in DOMAIN funds' : funds'[i].id = last'.fund_id
             /\ Lower(FundOf(funds', last'.fund_id).fund_name) \in DOMAIN name_to_id'
             /\ name_to_id'[Lower(FundOf(funds', last'.fund_id).fund_name)]
                   = last'.fund_id
       /\ (last.op = "resolve" /\ last.match_type = "new" /\ last'.op = "resolve")
          => LET F == FundOf(funds, last.fund_id)
                 normalized == Keys(last'.fund_name_raw).normalized
                 raw_lower == Keys(last'.fund_name_raw).raw_lower
                 candidates == {i \in DOMAIN funds :
                                  IsCandidate(funds[i], last'.fund_name_raw,
                                              last'.general_partner,
                                              last'.vintage_year)}
             IN  /\ normalized = Lower(F.fund_name)
                    => (last'.fund_id = F.id /\ last'.match_type = "exact")
                 /\ IsCandidate(F, last'.fund_name_raw, last'.general_partner,
                                last'.vintage_year)
                    => /\ last'.match_type # "new"
                       /\ funds' = funds
                       /\ (/\ normalized \notin DOMAIN name_to_id
                           /\ normalized \notin DOMAIN alias_to_id
                           /\ raw_lower \notin DOMAIN alias_to_id)
                          => /\ last'.match_type = "fuzzy"
                             /\ (\A i \in candidates :
                                    funds[i].id # F.id
                                    => ScoreGreater(Score(F.fund_name, last'.fund_name_raw),
                                                    Score(funds[i].fund_name,
                                                          last'.fund_name_raw)))
                                => last'.fund_id = F.id]_vars

\* a record fuzzy-matched to the fund that the record before it created, the
\* only fund of the registry and the only alias of the store
C7_Witness ==
    /\ last.op = "resolve"
    /\ last.match_type = "fuzzy"
    /\ Len(funds) = 1
    /\ last.fund_id = funds[1].id
    /\ Cardinality(db_fund_aliases) = 1
    /\ Cardinality(bound) = 2

\* C8: when resolve answers (F, fuzzy), each key the call adds to
\* _alias_to_id, the raw string and its normalized form, has a row of
\* fund_aliases for F and the source of the call.
C8_FuzzyAliasesPersisted ==
    [][(last'.op = "resolve" /\ last'.match_type = "fuzzy")
       => \A k \in FuzzyAliasKeys(last'.fund_name_raw) :
             \E r \in db_fund_aliases' :
                /\ RawKey(r.alias) = k
                /\ r.fund_id = last'.fund_id
                /\ r.source_pension_fund_id = last'.source]_vars

\* C9: fund_aliases holds at most one row per (alias, source), a null source
\* included, and add_fund_alias, called for a fund of the store, returns the
\* id of the row that is stored for the pair of the call.
C9_AddFundAliasIdempotent ==
    /\ \A r1 \in db_fund_aliases, r2 \in db_fund_aliases :
          (/\ r1.alias = r2.alias
           /\ r1.source_pension_fund_id = r2.source_pension_fund_id)
          => r1 = r2
    /\ (last.op = "add_fund_alias" /\ last.fund_id \in DOMAIN db_funds)
       => \E r \in db_fund_aliases :
             /\ r.id = last.alias_id
             /\ r.alias = last.fund_name_raw
             /\ r.source_pension_fund_id = last.source

\* C10: no call removes an entry of _alias_to_id or binds its key to another
\* fund, and no call removes a row of fund_aliases or leaves its (alias,
\* source) pair bound to another fund.
C10_AliasesNeverRepointed ==
    [][/\ \A k \in DOMAIN alias_to_id :
             k \in DOMAIN alias_to_id' /\ alias_to_id'[k] = alias_to_id[k]
       /\ \A r \in db_fund_aliases :
             /\ r \in db_fund_aliases'
             /\ \A q \in db_fund_aliases' :
                   (/\ q.alias = r.alias
                    /\ q.source_pension_fund_id = r.source_pension_fund_id)
                   => q.fund_id = r.fund_id]_vars

\* C12: total_funds of get_stats is the number of funds of the registry and
\* of the table funds; a resolve answered new raises it by exactly one, a
\* resolve answered exact, alias or fuzzy leaves it as it is, and no call
\* lowers it.
C12_TotalFunds ==
    [][LET before == get_stats(funds, name_to_id, alias_to_id).total_funds
           after == get_stats(funds', name_to_id', alias_to_id').total_funds
       IN  /\ after = Len(funds')
           /\ after = Cardinality(DOMAIN db_funds')
           /\ after >= before
           /\ last'.op = "resolve"
              => after = before + (IF last'.match_type = "new" THEN 1 ELSE 0)]_vars

\* two funds counted, the last call a resolve answered fuzzy
C12_Witness ==
    /\ last.op = "resolve"
    /\ last.match_type = "fuzzy"
    /\ get_stats(funds, name_to_id, alias_to_id).total_funds = 2

\* C13: a call of resolve with a name that is not blank raises nothing,
\* answers exact, alias, fuzzy or new, and returns the id of a fund that is
\* in _funds and in the table funds when the call returns.
C13_ResolveTotal ==
    [][(last'.op = "resolve" /\ ~IsBlank(last'.fund_name_raw))
       => /\ last'.raised = "none"
          /\ last'.match_type \in {"exact", "alias", "fuzzy", "new"}
          /\ \E i \in DOMAIN funds' : funds'[i].id = last'.fund_id
          /\ last'.fund_id \in DOMAIN db_funds'
          /\ db_funds'[last'.fund_id].id = last'.fund_id]_vars

\* a resolve answered alias with a fund that an earlier call created
C13_Witness ==
    /\ last.op = "resolve"
    /\ last.match_type = "alias"
    /\ ~IsBlank(last.fund_name_raw)
    /\ last.fund_id \in DOMAIN db_funds
    /\ Len(funds) >= 2

\* normalize_fund_name of the raw names
NormalizedNameTable == [n \in RawNames |-> normalize_fund_name(n)] @@ <<>>

\* extract_gp_from_fund_name of the raw names and of their normalized forms
InferredGPTable ==
    [n \in RawNames \cup {NormalizedNameTable[m] : m \in RawNames} |->
        extract_gp_from_fund_name(n)] @@ <<>>

\* C14 as claimed: when resolve answers (fund_id, new), the table funds holds
\* under fund_id a row whose fund_name_raw is the raw input, whose fund_name
\* is the normalized input, whose vintage year is the one supplied and whose
\* general partner is the one supplied or, none being supplied, the one
\* inferred from the name or null.
C14_NewFundAsObserved ==
    [][(last'.op = "resolve" /\ last'.match_type = "new")
       => /\ last'.fund_id \in DOMAIN db_funds'
          /\ LET row == db_funds'[last'.fund_id]
                 canonical_name == NormalizedNameTable[last'.fund_name_raw]
             IN  /\ row.fund_name_raw = last'.fund_name_raw
                 /\ row.fund_name = canonical_name
                 /\ row.vintage_year = last'.vintage_year
                 /\ row.general_partner =
                       IF last'.general_partner # None
                       THEN last'.general_partner
                       ELSE InferredGPTable[IF canonical_name # <<>>
                                            THEN canonical_name
                                            ELSE last'.fund_name_raw]]_vars

\* C14 amended: as claimed, but the fund_name of the row is the normalized
\* input only when that is not empty, and the raw input otherwise; the row
\* is also the fund dict of _funds.
C14_NewFundStored ==
    [][(last'.op = "resolve" /\ last'.match_type = "new")
       => /\ last'.fund_id \in DOMAIN db_funds'
          /\ LET row == db_funds'[last'.fund_id]
                 canonical_name == NormalizedNameTable[last'.fund_name_raw]
                 display_name == IF canonical_name # <<>> THEN canonical_name
                                 ELSE last'.fund_name_raw
             IN  /\ row.fund_name_raw = last'.fund_name_raw
                 /\ row.fund_name = display_name
                 /\ row.vintage_year = last'.vintage_year
                 /\ row.general_partner =
                       IF last'.general_partner # None
                       THEN last'.general_partner
                       ELSE InferredGPTable[display_name]
                 /\ row = FundOf(funds', last'.fund_id)]_vars

\* a fund created for a raw name that is not empty and whose normalized form
\* is: its fund_name is the raw name
C14_Witness ==
    /\ last.op = "resolve"
    /\ last.match_type = "new"
    /\ last.fund_name_raw # <<>>
    /\ NormalizedNameTable[last.fund_name_raw] = <<>>
    /\ db_funds[last.fund_id].fund_name = last.fund_name_raw

\* the hard rejects of _fuzzy_match that do not look at the fund numbers:
\* standard_score, the distinctive tokens and the strategy words
RejectsUnnumbered(normalized, canonical_normalized) ==
    RejectsTokens(None, None, ratio(normalized, canonical_normalized),
                  distinctive_tokens(normalized),
                  distinctive_tokens(canonical_normalized),
                  strategies(normalized), strategies(canonical_normalized))

UnnumberedRejectTable ==
    [p \in CanonicalNames \X RawNames |->
        RejectsUnnumbered(NormalizedKey(p[2]), Lower(normalize_fund_name(p[1])))] @@ <<>>

\* C20: a fuzzy answer never names a fund whose fund number and the input's
\* are both non-null and different; and for a fund and an input of which one
\* has no fund number, the fund is rejected exactly when one of the other
\* three hard rejects applies.
C20_FundNumberReject ==
    [][last'.op = "resolve"
       => /\ last'.match_type = "fuzzy"
             => ~(/\ FundNumber(last'.fund_name_raw) # None
                  /\ FundNumber(FundOf(funds, last'.fund_id).fund_name) # None
                  /\ FundNumber(last'.fund_name_raw)
                        # FundNumber(FundOf(funds, last'.fund_id).fund_name))
          /\ \A i \in DOMAIN funds :
                (\/ FundNumber(last'.fund_name_raw) = None
                 \/ FundNumber(funds[i].fund_name) = None)
                => (Rejected(funds[i].fund_name, last'.fund_name_raw)
                    <=> UnnumberedRejectTable[<<funds[i].fund_name,
                                                last'.fund_name_raw>>])]_vars

\* a fuzzy answer for an input with a fund number, naming a fund whose
\* canonical name has none
C20_Witness ==
    /\ last.op = "resolve"
    /\ last.match_type = "fuzzy"
    /\ FundNumber(last.fund_name_raw) # None
    /\ FundNumber(FundOf(funds, last.fund_id).fund_name) = None

\* the columns of a fund that may be filled when they are null: <<name of
\* the column, its null>>
BackfilledColumns ==
    {<<"general_partner", None>>, <<"general_partner_normalized", None>>,
     <<"vintage_year", NoYear>>, <<"asset_class", NoStrategy>>,
     <<"sub_strategy", NoStrategy>>}

\* the row after is the row before with nothing changed but null columns
\* filled
OnlyBackfilled(before, after) ==
    /\ after.id = before.id
    /\ after.fund_name = before.fund_name
    /\ after.fund_name_raw = before.fund_name_raw
    /\ \A c \in BackfilledColumns :
          before[c[1]] # c[2] => after[c[1]] = before[c[1]]

\* C11: a call of resolve that is answered exact, alias or fuzzy with fund F,
\* and a call of upsert_fund on the id of F, leave the id, the fund_name and
\* the fund_name_raw of F as they were and change none of its columns that
\* is not null, in _funds and in the table funds.
C11_OnlyBackfill ==
    [][(\/ last'.op = "resolve" /\ last'.match_type \in {"exact", "alias", "fuzzy"}
        \/ last'.op = "upsert_fund")
       => /\ last'.fund_id \in DOMAIN db_funds
             => /\ last'.fund_id \in DOMAIN db_funds'
                /\ OnlyBackfilled(db_funds[last'.fund_id], db_funds'[last'.fund_id])
          /\ \A i \in DOMAIN funds :
                funds[i].id = last'.fund_id
                => (i \in DOMAIN funds' /\ OnlyBackfilled(funds[i], funds'[i]))]_vars

\* C16 as claimed: once the alias that binds the string x to fund F is
\* deleted from the table, no call of resolve(x) is answered (F, alias).
C16_DeletedAliasForgotten ==
    [][(last'.op = "resolve" /\ last'.match_type = "alias")
       => \A d \in deleted :
             ~(d[1] = RawKey(last'.fund_name_raw) /\ d[2] = last'.fund_id)]_vars

\* C16 amended: once the alias that binds x to F is deleted and the registry
\* is loaded again, the raw string x is no key of the alias index until a
\* fuzzy match binds it again, so resolve(x) is answered (F, alias) only
\* through the normalized form of x.
C16_DeletedAliasForgottenOnLoad ==
    [][last'.op = "resolve"
       => \A d \in deleted :
             (/\ d[3]
              /\ d[1] = RawKey(last'.fund_name_raw)
              /\ d[2] = last'.fund_id
              /\ last'.match_type = "alias")
             => /\ d[1] \notin DOMAIN alias_to_id
                /\ Keys(last'.fund_name_raw).normalized \in DOMAIN alias_to_id
                /\ Keys(last'.fund_name_raw).normalized # d[1]]_vars

\* resolve(x) after the deletion of the alias x of F and the load, answered
\* (F, alias) through the alias that is the normalized form of x
C16_Witness ==
    /\ last.op = "resolve"
    /\ last.match_type = "alias"
    /\ \E d \in deleted :
          d[3] /\ d[1] = RawKey(last.fund_name_raw) /\ d[2] = last.fund_id

\* C19 as claimed: a call of resolve whose lookups found nothing, and that
\* writes after another call has bound the same name, is answered new with a
\* fresh id, so that two funds carry the one name in the registry and the
\* store.
C19_ConcurrentNewFunds ==
    [][\A t \in Threads :
          (/\ pending[t].phase = "looked_up"
           /\ pending'[t].phase = "idle"
           /\ pending[t].m[2] = "new"
           /\ Keys(pending[t].rec[1]).normalized \in DOMAIN name_to_id)
          => /\ pending'[t].ret[2] = "new"
             /\ pending'[t].ret[1] \in DOMAIN db_funds' \ DOMAIN db_funds
             /\ Len(funds') = Len(funds) + 1]_vars

\* C19 amended: a call of resolve whose lookups found nothing, and that
\* writes after another call has bound the same name, runs in a thread that
\* does not own the connection: it raises sqlite3.ProgrammingError and
\* writes no fund, no alias and no index entry.
C19_ConcurrentCallRaises ==
    [][\A t \in Threads :
          (/\ pending[t].phase = "looked_up"
           /\ pending'[t].phase = "idle"
           /\ pending[t].m[2] = "new"
           /\ Keys(pending[t].rec[1]).normalized \in DOMAIN name_to_id)
          => /\ pending'[t].ret = <<NoId, "ProgrammingError">>
             /\ last'.raised = "ProgrammingError"
             /\ UNCHANGED <<registry, store>>]_vars

\* both threads looked the one unseen name up before either wrote; thread
\* 1 was answered new and thread 2 raised
C19_Witness ==
    /\ \A t \in Threads : pending[t].phase = "idle" /\ pending[t].m[2] = "new"
    /\ pending[1].rec = pending[2].rec
    /\ pending[1].ret[2] = "new"
    /\ pending[2].ret = <<NoId, "ProgrammingError">>
    /\ Len(funds) = 1
    /\ DOMAIN db_funds = {pending[1].ret[1]}

\* C18: adapter failures are isolated: Pipeline.run leaves an adapter only
\* for the next one of the list, with a result for it and the results of
\* the others untouched; an adapter in which a call raised has the status
\* error and zero counts, and the adapters before the position are exactly
\* those with a result.
C18_AdapterFailuresIsolated ==
    [][run'.pos # run.pos
       => /\ run'.pos = run.pos + 1
          /\ run'.run_id = NoId
          /\ DOMAIN run'.results = {Adapters[i] : i \in 1..run.pos}
          /\ \A i \in 1..(run.pos - 1) : run'.results[Adapters[i]] = run.results[Adapters[i]]
          /\ LET result == run'.results[Adapters[run.pos]]
             IN  /\ result.status \in {"completed", "skipped", "error"}
                 /\ result.status = "error" <=> result.error # "none"
                 /\ result.status = "error"
                       => /\ result.records_extracted = 0
                          /\ result.records_updated = 0
                          /\ result.records_flagged = 0
                 /\ result.status = "completed"
                       => result.records_extracted = Len(run.records)]_vars

\* the first adapter failed in a store call, the second ran and completed
C18_Witness ==
    /\ run.pos = Len(Adapters) + 1
    /\ run.results[Adapters[1]].status = "error"
    /\ run.results[Adapters[1]].error = "OperationalError"
    /\ run.results[Adapters[2]].status = "completed"
    /\ run.results[Adapters[2]].records_extracted > 0

\* C17: a batch that hits a store failure aborts as a whole and is not left
\* partial: when a store call raises while a record of an adapter is
\* processed, no later adapter is processed and no commitment of that
\* adapter is left in the store.
C17_BatchAbortsWhole ==
    [][(/\ run'.pos # run.pos
        /\ run'.results[Adapters[run.pos]].error = "OperationalError")
       => /\ run'.pos = Len(Adapters) + 1
          /\ \A c \in db_commitments' : c.pension_fund_id # Adapters[run.pos]]_vars

\* C15: every fuzzy match is reported for review: each alias the pipeline
\* has persisted has a review-queue item of type fuzzy_match that carries
\* the raw name, the matched canonical name and the scores.
C15_FuzzyMatchReported ==
    \A row \in db_fund_aliases :
       \E item \in db_review_queue :
          /\ item.flag_type = "fuzzy_match"
          /\ item.flag_detail.fund_name_raw = row.alias
          /\ {"canonical_name", "scores"} \subseteq DOMAIN item.flag_detail

\* C24: extract_fund_number returns the numeral of largest value among the
\* tokens the guards accept, and None when none is accepted. A token is a
\* numeral when, uppercased and without trailing periods, it is one of I to
\* XXV; an I is accepted only after a fund-context word (case and trailing
\* period or comma aside), a V only when the token before it does not end
\* in v.
C24_LargestAcceptedNumeral ==
    last.op = "extract_fund_number"
    => LET tokens == ReSplit(Strip(last.name), TokenSeparators, <<>>)
           numeral == [i \in DOMAIN tokens |-> RStripChars(Upper(tokens[i]), {"."})]
           before == [i \in DOMAIN tokens |-> IF i = 1 THEN <<>> ELSE Lower(tokens[i - 1])]
           accepted == {i \in DOMAIN tokens :
                           /\ numeral[i] \in ToSet(ROMAN_VALUES)
                           /\ numeral[i] = <<"I">>
                                 => i > 1 /\ RStripChars(before[i], {".", ","}) \in fund_words
                           /\ numeral[i] = <<"V">>
                                 => ~(i > 1 /\ before[i] # <<>> /\ before[i][Len(before[i])] = "v")}
       IN  IF last.name = <<>> \/ accepted = {}
           THEN last.result = None
           ELSE \E i \in accepted :
                   /\ last.result = numeral[i]
                   /\ \A j \in accepted : RomanValue(numeral[j]) <= RomanValue(numeral[i])

\* a name with an accepted I and a larger numeral after it
C24_Witness ==
    /\ last.op = "extract_fund_number"
    /\ last.name = <<"F","u","n","d"," ","I"," ","x","i","i",".">>
    /\ last.result = <<"X","I","I">>

\* C30: normalize_fund_name is idempotent.
C30_NormalizeIdempotent ==
    last.op = "normalize_fund_name" => last.again = last.result

\* the fund of the list fs that _fuzzy_match returned
Matched(fs, fund_id) == fs[CHOOSE i \in DOMAIN fs : fs[i].id = fund_id]

\* canonical_normalized of a fund
CanonicalNormalized(fund) == Lower(normalize_fund_name(fund.fund_name))

\* C21: whenever _fuzzy_match, the only source of the answer fuzzy of resolve,
\* returns a fund, the strategy words among the tokens of the normalized input
\* are the strategy words among the tokens of the fund's normalized name; so
\* an input with "credit" is never matched to a fund without it.
C21_StrategyBlock ==
    (last.op = "_fuzzy_match" /\ last.result[1] # NoId) =>
        strategies(NormalizedKey(last.fund_name_raw))
            = strategies(CanonicalNormalized(Matched(last.funds, last.result[1])))

\* "KKR Credit Fund XII" (GP KKR, 2017) against a registry whose fund
\* "KKR Fund XII" has a name score above 0.75 and two signals: no match
C21_Witness ==
    /\ last.op = "_fuzzy_match"
    /\ last.fund_name_raw = KKR_Credit_Fund_XII
    /\ \E i \in DOMAIN last.funds :
          /\ <<"c","r","e","d","i","t">> \notin strategies(CanonicalNormalized(last.funds[i]))
          /\ ScoreAbove(Score(last.funds[i].fund_name, last.fund_name_raw), NameFloor)
          /\ Signals(last.funds[i], last.fund_name_raw, last.general_partner, last.vintage_year) >= MinSignals
    /\ last.result[1] = NoId

\* the entries of fs that pass every hard reject, have two signals and a name
\* score above 0.75 for the input
Qualifying(fs, fund_name_raw, general_partner, vintage_year) ==
    {i \in DOMAIN fs :
        /\ ~Rejected(fs[i].fund_name, fund_name_raw)
        /\ Signals(fs[i], fund_name_raw, general_partner, vintage_year) >= MinSignals
        /\ ScoreAbove(Score(fs[i].fund_name, fund_name_raw), NameFloor)}

\* the entries of q whose name score no entry of q exceeds
Highest(fs, q, fund_name_raw) ==
    {i \in q : \A j \in q : ~ScoreGreater(Score(fs[j].fund_name, fund_name_raw),
                                            Score(fs[i].fund_name, fund_name_raw))}

\* the least element of a non-empty set of positions
First(s) == CHOOSE i \in s : \A j \in s : i <= j

\* C22: _fuzzy_match returns no fund exactly when no fund qualifies, and
\* otherwise the first fund in iteration order among the qualifying funds
\* of highest token-sort score, with that score.
C22_BestCandidate ==
    last.op = "_fuzzy_match" =>
        LET q == Qualifying(last.funds, last.fund_name_raw, last.general_partner, last.vintage_year)
            h == Highest(last.funds, q, last.fund_name_raw)
        IN  IF q = {} THEN last.result = <<NoId, <<0, 1>>>>
            ELSE /\ last.result[1] = last.funds[First(h)].id
                 /\ last.result[2] = Score(last.funds[First(h)].fund_name, last.fund_name_raw)

\* two funds qualify with the same score and the first one is returned
C22_Witness ==
    /\ last.op = "_fuzzy_match"
    /\ Len(last.funds) = 2
    /\ last.funds[1].fund_name # last.funds[2].fund_name
    /\ Qualifying(last.funds, last.fund_name_raw, last.general_partner, last.vintage_year) = {1, 2}
    /\ Highest(last.funds, {1, 2}, last.fund_name_raw) = {1, 2}
    /\ last.result[1] = last.funds[1].id

\* both sides have a distinctive token and the Jaccard overlap is below 0.30
OverlapBelowFloor(a, b) ==
    /\ a # {}
    /\ b # {}
    /\ ScoreBelow(<<Cardinality(a \cap b), Cardinality(a \cup b)>>, OverlapFloor)

\* the hard rejects of the fund for the input that look at no distinctive
\* token: the fund numbers, the standard score and the strategy words
RejectedOtherwise(fund, normalized, fund_name_raw) ==
    Rejects(extract_fund_number(fund_name_raw), extract_fund_number(fund.fund_name),
            ratio(normalized, CanonicalNormalized(fund)), {}, {}, {}, {},
            strategies(normalized), strategies(CanonicalNormalized(fund)))

\* C23: a fund is rejected for the input when both have a distinctive token
\* and the Jaccard overlap of the two sets is below 0.30, and is never
\* returned then; beyond that a fund is rejected only by the other hard
\* rejects, so with no distinctive token on either side the overlap rejects
\* nothing.
C23_DistinctiveFloor ==
    last.op = "_fuzzy_match" =>
        \A i \in DOMAIN last.funds :
            LET a == distinctive_tokens(NormalizedKey(last.fund_name_raw))
                b == distinctive_tokens(CanonicalNormalized(last.funds[i]))
            IN  /\ OverlapBelowFloor(a, b) => last.result[1] # last.funds[i].id
                /\ Rejected(last.funds[i].fund_name, last.fund_name_raw)
                       <=> \/ OverlapBelowFloor(a, b)
                           \/ RejectedOtherwise(last.funds[i], NormalizedKey(last.fund_name_raw), last.fund_name_raw)

\* "KKS Fund XII" (GP KKR, 2017) against the fund "KKR Fund XII" alone: the
\* score is above 0.75 with two signals, the distinctive tokens kks and kkr
\* do not overlap, and no fund is returned
C23_Witness ==
    /\ last.op = "_fuzzy_match"
    /\ last.fund_name_raw = KKS_Fund_XII
    /\ Len(last.funds) = 1
    /\ OverlapBelowFloor(distinctive_tokens(NormalizedKey(last.fund_name_raw)),
                         distinctive_tokens(CanonicalNormalized(last.funds[1])))
    /\ ~RejectedOtherwise(last.funds[1], NormalizedKey(last.fund_name_raw), last.fund_name_raw)
    /\ ScoreAbove(Score(last.funds[1].fund_name, last.fund_name_raw), NameFloor)
    /\ Signals(last.funds[1], last.fund_name_raw, last.general_partner, last.vintage_year) >= MinSignals
    /\ last.result[1] = NoId

\* C25: once resolve(x), x not blank, was answered with fund F as fuzzy or new,
\* every later resolve(x) on the same registry is answered with F, whatever
\* was resolved in between.
C25_ResolutionStable ==
    [][(last'.op = "resolve" /\ ~IsBlank(last'.fund_name_raw))
       => \A b \in bound : b[1] = last'.fund_name_raw => last'.fund_id = b[2]]_vars

\* what a FundRegistry constructed from the store as it is answers to the
\* call: the fund_id, or NoId where it would create a fund
ReloadedAnswers(fs, keys, alias_tbl, fund_name_raw, general_partner, vintage_year) ==
    {resolve_match(LoadedNames(fs, keys), a2i, fs, fund_name_raw, general_partner, vintage_year)[1] :
        a2i \in LoadedAliases(<<>>, alias_tbl)}

\* C26: when the live registry has answered a call of resolve, no alias
\* having been deleted from the store by hand, a registry constructed from
\* the store gives the same fund_id for the same call.
C26_ReloadEquivalent ==
    (last.op = "resolve" /\ deleted = {}) =>
        \E fs \in {[i \in 1..Cardinality(DOMAIN db_funds) |-> db_funds[ListIds(DOMAIN db_funds)[i]]]} :
            \E keys \in {[i \in DOMAIN fs |-> CanonicalKeyTable[fs[i].fund_name]]} :
                ReloadedAnswers(fs, keys, db_fund_aliases, last.fund_name_raw,
                                last.general_partner, last.vintage_year) = {last.fund_id}

\* C27: a call of resolve that a failing store method makes raise leaves the
\* in-memory indices as they were, and the store holds no row the call wrote.
C27_NoPartialResult ==
    [][(last'.op = "resolve" /\ last'.raised = "OperationalError")
       => UNCHANGED <<funds, name_to_id, alias_to_id, db_funds, db_fund_aliases, db_gp_aliases>>]_vars

\* the adapter at run.pos is skipped in this step
Skipped(r, next_r) ==
    /\ r.pos <= Len(Adapters)
    /\ next_r.pos = r.pos + 1
    /\ r.run_id = NoId
    /\ Adapters[r.pos] \in DOMAIN next_r.results
    /\ next_r.results[Adapters[r.pos]].status = "skipped"

\* C28: when the pipeline skips an adapter, the source hash being that of the
\* pension fund's last run, a run of the pension fund with that hash has
\* status completed; a run that ended with error causes no skip.
C28_SkipsOnlyAfterCompleted ==
    [][Skipped(run, run')
       => \E last_run \in LastExtractionRun(db_extraction_runs, Adapters[run.pos]) :
             \E i \in DOMAIN db_extraction_runs :
                /\ db_extraction_runs[i].pension_fund_id = Adapters[run.pos]
                /\ db_extraction_runs[i].source_hash = last_run.source_hash
                /\ db_extraction_runs[i].status = "completed"]_vars

\* the rows of commitments written for the pension fund
CommitmentsOf(pension_fund_id) ==
    {c \in db_commitments : c.pension_fund_id = pension_fund_id}

====
